---- MODULE Spec2Model ----
(***************************************************************************)
(* A model of the overlap-tolerant range-map builder                       *)
(* (minidump-common/src/traits.rs, IntoRangeMapSafe::into_rangemap_safe)   *)
(* and of the CPU-context decoder (src/context.rs, MinidumpContext::read), *)
(* of the register accessors of a decoded context (CpuContext), of        *)
(* StackFrame (minidump-processor/src/process_state.rs) and of the stream  *)
(* directory of the Minidump facade.                                       *)
(***************************************************************************)
EXTENDS Integers, Naturals, Sequences, FiniteSets, TLC

(***************************************************************************)
(* Bounds.  Addresses are u64 in the code; the model keeps the width as a  *)
(* parameter (the largest address) so that the boundary is reachable.      *)
(***************************************************************************)
U64Max == 2
NumValues == 2
MaxInputLen == 3

Addr == 0..U64Max
Values == 1..NumValues

VARIABLES
    items,      \* the (range, value) pairs of `self`, in iteration order
    input,      \* `input`: the collected and sorted vector
    pos,        \* index of the entry the `for` loop looks at next
    vec,        \* `vec`: the entries accepted so far
    warnings,   \* the warn! records emitted so far
    pc,         \* position inside into_rangemap_safe
    bytes,      \* the blob handed to MinidumpContext::read: its length and
                \* the 32-bit words at byte offsets 0, 4 and 48, each a set
                \* of bit positions, as read in the byte order `endian`
    endian,     \* the byte order handed to MinidumpContext::read
    offset,     \* `offset`: the bytes consumed by the last successful gread
    ctxType,    \* the CONTEXT_* record the blob was decoded as
    result,     \* what MinidumpContext::read returned
    ctx,        \* a MinidumpContext in memory: its raw record and `valid`
    ret,        \* the last call on ctx, frame or dump: its name, arguments
                \* and outcome
    calls,      \* the number of calls made on ctx
    frame,      \* a StackFrame
    file,       \* the stream directory of the minidump file handed to read
    truncated,  \* the locations in the file whose stream lacks its last byte
    dump,       \* the Minidump built from it
    state,      \* a ProcessState: its cpu, requesting_thread and threads
    written,    \* what ProcessState::print has written to `f`, in order
    at          \* position inside ProcessState::print and its loop index

rangeVars == <<items, input, pos, vec, warnings, pc>>
readVars == <<bytes, endian, offset, ctxType, result>>
ctxVars == <<ctx, ret, calls>>
frameVars == <<frame>>
dumpVars == <<file, truncated, dump>>
stateVars == <<state, written, at>>
vars ==
    <<items, input, pos, vec, warnings, pc, bytes, endian, offset, ctxType, result,
      ctx, ret, calls, frame, file, truncated, dump, state, written, at>>

(***************************************************************************)
(* range_map::Range<u64> and the (Range<u64>, V) pairs.                    *)
(***************************************************************************)
Range == {r \in [start : Addr, end : Addr] : r.start <= r.end}
Entry == [range : Range, val : Values]

\* The code looks at values only through == and !=, so an input is taken up
\* to a renaming of its values: the first value is 1 and each new value is
\* the least one not used before.
FirstUse(s) ==
    \A i \in 1..Len(s) :
        \/ s[i].val = 1
        \/ \E j \in 1..(i - 1) : s[j].val >= s[i].val - 1

\* the sequences over S of length at most n
SeqsUpTo(S, n) == UNION {[1..k -> S] : k \in 0..n}

\* The key comparison of input.sort_by_key(|x| x.0): the key is the whole
\* Range, ordered by start and then by end.
KeyLeqStartOnly(a, b) == a.range.start <= b.range.start

KeyLeq(a, b) ==
    \/ a.range.start < b.range.start
    \/ a.range.start = b.range.start /\ a.range.end <= b.range.end

\* Insert x behind every element whose key is not greater (stable).
RECURSIVE InsertSorted(_, _)
InsertSorted(s, x) ==
    IF s = <<>> THEN <<x>>
    ELSE IF KeyLeq(s[Len(s)], x) THEN Append(s, x)
    ELSE Append(InsertSorted(SubSeq(s, 1, Len(s) - 1), x), s[Len(s)])

RECURSIVE SortByKey(_)
SortByKey(s) ==
    IF s = <<>> THEN <<>>
    ELSE InsertSorted(SortByKey(SubSeq(s, 1, Len(s) - 1)), s[Len(s)])

\* u64::saturating_add(1)
WrappingAdd1(x) == (x + 1) % (U64Max + 1)
SaturatingAdd1(x) == IF x = U64Max THEN U64Max ELSE x + 1

Max(a, b) == IF a >= b THEN a ELSE b

Last(s) == s[Len(s)]

\* range.start <= last_range.end && &val != last_val
ConflictTestStrict(last, e) == e.range.start < last.range.end /\ e.val # last.val
ConflictTest(last, e) == e.range.start <= last.range.end /\ e.val # last.val

\* range.start <= last_range.end.saturating_add(1) && &val == last_val
ExtendTestAcrossGap(last, e) == e.val = last.val
ExtendTestNoAdjacent(last, e) == e.range.start <= last.range.end /\ e.val = last.val
ExtendTest(last, e) ==
    e.range.start <= SaturatingAdd1(last.range.end) /\ e.val = last.val

\* last_range.end = cmp::max(range.end, last_range.end)
ExtendedTakesNextEnd(last, e) == [last EXCEPT !.range.end = e.range.end]
Extended(last, e) ==
    [last EXCEPT !.range.end = Max(e.range.end, last.range.end)]

\* the warn! record
Warning(last, e) ==
    [last_range |-> last.range, range |-> e.range, last_val |-> last.val, val |-> e.val]

(***************************************************************************)
(* into_rangemap_safe                                                      *)
(***************************************************************************)
\* let mut input = self.into_iter().collect(); input.sort_by_key(..);
\* let mut vec = Vec::with_capacity(..)
Collect ==
    /\ pc = "start"
    /\ input' = SortByKey(items)
    /\ vec' = <<>>
    /\ pos' = 1
    /\ pc' = "loop"
    /\ UNCHANGED <<items, warnings>>

InLoop == pc = "loop" /\ pos <= Len(input)

\* the conflict branch: warn and continue
LoopConflictSilent ==
    /\ InLoop
    /\ vec # <<>>
    /\ ConflictTest(Last(vec), input[pos])
    /\ pos' = pos + 1
    /\ UNCHANGED <<items, input, vec, pc, warnings>>

LoopConflict ==
    /\ InLoop
    /\ vec # <<>>
    /\ ConflictTest(Last(vec), input[pos])
    /\ warnings' = Append(warnings, Warning(Last(vec), input[pos]))
    /\ pos' = pos + 1
    /\ UNCHANGED <<items, input, vec, pc>>

\* the extend branch: grow last_range and continue
LoopExtend ==
    /\ InLoop
    /\ vec # <<>>
    /\ ~ConflictTest(Last(vec), input[pos])
    /\ ExtendTest(Last(vec), input[pos])
    /\ vec' = [vec EXCEPT ![Len(vec)] = Extended(Last(vec), input[pos])]
    /\ pos' = pos + 1
    /\ UNCHANGED <<items, input, warnings, pc>>

\* vec.push((range, val))
LoopPush ==
    /\ InLoop
    /\ IF vec = <<>> THEN TRUE
       ELSE /\ ~ConflictTest(Last(vec), input[pos])
            /\ ~ExtendTest(Last(vec), input[pos])
    /\ vec' = Append(vec, input[pos])
    /\ pos' = pos + 1
    /\ UNCHANGED <<items, input, warnings, pc>>

\* RangeMap::from_sorted_vec(vec)
FromSortedVec ==
    /\ pc = "loop"
    /\ pos > Len(input)
    /\ pc' = "done"
    /\ UNCHANGED <<items, input, pos, vec, warnings>>

\* the for loop from entry i on, as a function of the sorted input, the
\* entries accepted so far and the warnings emitted so far
RECURSIVE ForLoop(_, _, _, _)
ForLoop(inp, i, v, w) ==
    IF i > Len(inp) THEN [vec |-> v, warnings |-> w]
    ELSE IF v = <<>> THEN ForLoop(inp, i + 1, Append(v, inp[i]), w)
    ELSE IF ConflictTest(Last(v), inp[i])
         THEN ForLoop(inp, i + 1, v, Append(w, Warning(Last(v), inp[i])))
    ELSE IF ExtendTest(Last(v), inp[i])
         THEN ForLoop(inp, i + 1, [v EXCEPT ![Len(v)] = Extended(Last(v), inp[i])], w)
    ELSE ForLoop(inp, i + 1, Append(v, inp[i]), w)

\* the loop run on the input as supplied
into_rangemap_safe_unsorted(s) == ForLoop(s, 1, <<>>, <<>>)

\* into_rangemap_safe as a function of the pairs supplied: sort, then loop
into_rangemap_safe(s) == ForLoop(SortByKey(s), 1, <<>>, <<>>)

\* a call of into_rangemap_safe from start to end
IntoRangemapSafe ==
    /\ pc = "start"
    /\ input' = SortByKey(items)
    /\ vec' = into_rangemap_safe(items).vec
    /\ warnings' = into_rangemap_safe(items).warnings
    /\ pos' = Len(items) + 1
    /\ pc' = "done"
    /\ UNCHANGED items

NoResult == [kind |-> "none"]

ReadIdle ==
    /\ bytes = [len |-> 0, w0 |-> {}, w1 |-> {}, w12 |-> {}]
    /\ endian = "Little"
    /\ offset = 0
    /\ ctxType = "none"
    /\ result = NoResult

\* no context is held and no call has been made on one
NoRet == [op |-> "none", out |-> [kind |-> "none"]]
CtxIdle ==
    /\ ctx = NoResult
    /\ ret = NoRet
    /\ calls = 0

\* no frame exists
NoFrame == [kind |-> "none"]
FrameIdle == frame = NoFrame

\* no file has been read
NoDump == [kind |-> "none"]
DumpIdle ==
    /\ file = <<>>
    /\ truncated = {}
    /\ dump = NoDump

\* no ProcessState exists
NoState == [kind |-> "none"]
StateIdle ==
    /\ state = NoState
    /\ written = <<>>
    /\ at = [pc |-> "none", i |-> 0]

InitRangeMap ==
    /\ items \in SeqsUpTo(Entry, MaxInputLen)
    /\ FirstUse(items)
    /\ input = <<>>
    /\ pos = 0
    /\ vec = <<>>
    /\ warnings = <<>>
    /\ pc = "start"
    /\ ReadIdle
    /\ CtxIdle
    /\ FrameIdle
    /\ StateIdle
    /\ DumpIdle

NextRangeMap ==
    \/ Collect /\ UNCHANGED <<stateVars, readVars, ctxVars, frameVars, dumpVars>>
    \/ LoopConflict /\ UNCHANGED <<stateVars, readVars, ctxVars, frameVars, dumpVars>>
    \/ LoopExtend /\ UNCHANGED <<stateVars, readVars, ctxVars, frameVars, dumpVars>>
    \/ LoopPush /\ UNCHANGED <<stateVars, readVars, ctxVars, frameVars, dumpVars>>
    \/ FromSortedVec /\ UNCHANGED <<stateVars, readVars, ctxVars, frameVars, dumpVars>>

SpecRangeMap == InitRangeMap /\ [][NextRangeMap]_vars

\* into_rangemap_safe run in one step on inputs of at most MaxWholeLen pairs
MaxWholeLen == 2
InitWhole ==
    /\ items \in SeqsUpTo(Entry, MaxWholeLen)
    /\ input = <<>>
    /\ pos = 0
    /\ vec = <<>>
    /\ warnings = <<>>
    /\ pc = "start"
    /\ ReadIdle
    /\ CtxIdle
    /\ FrameIdle
    /\ StateIdle
    /\ DumpIdle

NextWhole == IntoRangemapSafe /\ UNCHANGED <<stateVars, readVars, ctxVars, frameVars, dumpVars>>

SpecWhole == InitWhole /\ [][NextWhole]_vars

(***************************************************************************)
(* The CPU-context decoder.                                                *)
(***************************************************************************)
\* A 32-bit word is the set of its one-bits (bit 0 the least significant).
\* ContextFlagsCpu: the CPU-family bits of a context flag word.
CONTEXT_ARM_OLD == {6}
CONTEXT_X86 == {16}
CONTEXT_MIPS == {18}
CONTEXT_IA64 == {19}
CONTEXT_AMD64 == {20}
CONTEXT_ARM64 == {22}
CONTEXT_PPC64 == {24}
CONTEXT_SPARC == {28}
CONTEXT_PPC == {29}
CONTEXT_ARM == {30}
CONTEXT_ARM64_OLD == {31}

CpuMask ==
    UNION {CONTEXT_ARM_OLD, CONTEXT_X86, CONTEXT_MIPS, CONTEXT_IA64, CONTEXT_AMD64,
           CONTEXT_ARM64, CONTEXT_PPC64, CONTEXT_SPARC, CONTEXT_PPC, CONTEXT_ARM,
           CONTEXT_ARM64_OLD}

\* ContextFlagsCpu::from_flags: keep the CPU-family bits
from_flags_unmasked(flags) == flags
from_flags(flags) == flags \cap CpuMask

Variants == {"X86", "Ppc", "Ppc64", "Amd64", "Sparc", "Arm", "Arm64", "OldArm64", "Mips"}

\* the ContextFlagsCpu value of each MinidumpRawContext variant
FlagsCpuOf(v) ==
    CASE v = "X86" -> CONTEXT_X86
      [] v = "Ppc" -> CONTEXT_PPC
      [] v = "Ppc64" -> CONTEXT_PPC64
      [] v = "Amd64" -> CONTEXT_AMD64
      [] v = "Sparc" -> CONTEXT_SPARC
      [] v = "Arm" -> CONTEXT_ARM
      [] v = "Arm64" -> CONTEXT_ARM64
      [] v = "OldArm64" -> CONTEXT_ARM64_OLD
      [] v = "Mips" -> CONTEXT_MIPS

\* mem::size_of of the CONTEXT_* record of each variant
ContextSize(v) ==
    CASE v = "X86" -> 716
      [] v = "Ppc" -> 1004
      [] v = "Ppc64" -> 1160
      [] v = "Amd64" -> 1232
      [] v = "Sparc" -> 584
      [] v = "Arm" -> 368
      [] v = "Arm64" -> 912
      [] v = "OldArm64" -> 796
      [] v = "Mips" -> 600

\* The context_flags field of the record as gread_with decodes it, cast to
\* u32: a u32 at byte 48 of CONTEXT_AMD64, the low half of the u64 at byte 0
\* of CONTEXT_PPC64 and CONTEXT_ARM64_OLD, the u32 at byte 0 otherwise.
ContextFlagsField(v, b, e) ==
    CASE v = "Amd64" -> b.w12
      [] v \in {"Ppc64", "OldArm64"} -> IF e = "Little" THEN b.w0 ELSE b.w1
      [] OTHER -> b.w0

\* scroll's gread_with at offset off for a value of n bytes: fails, leaving
\* the offset alone, unless the n bytes lie inside the blob
GreadWholeBlob(b, off, n) ==
    IF off + n = b.len THEN [ok |-> TRUE, offset |-> off + n]
    ELSE [ok |-> FALSE, offset |-> off]
GreadUnchecked(b, off, n) == [ok |-> TRUE, offset |-> off + n]
Gread(b, off, n) ==
    IF off + n <= b.len THEN [ok |-> TRUE, offset |-> off + n]
    ELSE [ok |-> FALSE, offset |-> off]

\* the if / else if chain on bytes.len()
SizeVariantNoOldArm64(len) ==
    CASE len = ContextSize("Amd64") -> "Amd64"
      [] len = ContextSize("Ppc64") -> "Ppc64"
      [] OTHER -> "none"
SizeVariant(len) ==
    CASE len = ContextSize("Amd64") -> "Amd64"
      [] len = ContextSize("Ppc64") -> "Ppc64"
      [] len = ContextSize("OldArm64") -> "OldArm64"
      [] OTHER -> "none"

\* the match on ContextFlagsCpu::from_flags(flags)
FlagsVariantWithAmd64(cpu) ==
    CASE cpu = CONTEXT_X86 -> "X86"
      [] cpu = CONTEXT_PPC -> "Ppc"
      [] cpu = CONTEXT_SPARC -> "Sparc"
      [] cpu = CONTEXT_ARM -> "Arm"
      [] cpu = CONTEXT_MIPS -> "Mips"
      [] cpu = CONTEXT_ARM64 -> "Arm64"
      [] cpu = CONTEXT_AMD64 -> "Amd64"
      [] OTHER -> "none"
FlagsVariant(cpu) ==
    CASE cpu = CONTEXT_X86 -> "X86"
      [] cpu = CONTEXT_PPC -> "Ppc"
      [] cpu = CONTEXT_SPARC -> "Sparc"
      [] cpu = CONTEXT_ARM -> "Arm"
      [] cpu = CONTEXT_MIPS -> "Mips"
      [] cpu = CONTEXT_ARM64 -> "Arm64"
      [] OTHER -> "none"

Err(e) == [kind |-> "Err", err |-> e]

\* MinidumpContext::from_raw; raw is the variant for a decoded blob and the
\* whole record for a context whose registers are accessed
from_raw_nothing_valid(v, flags) ==
    [kind |-> "Ok", raw |-> v, context_flags |-> flags, valid |-> [kind |-> "Some", which |-> {}]]
from_raw(v, flags) == [kind |-> "Ok", raw |-> v, context_flags |-> flags, valid |-> [kind |-> "All"]]

\* MinidumpContext::read, the blob has the size of a record without a
\* leading flag word
ReadBySize ==
    /\ result = NoResult
    /\ SizeVariant(bytes.len) # "none"
    /\ LET v == SizeVariant(bytes.len)
           g == Gread(bytes, 0, ContextSize(v))
           flags == ContextFlagsField(v, bytes, endian)
       IN  /\ ctxType' = v
           /\ offset' = g.offset
           /\ result' = IF ~g.ok THEN Err("ReadFailure")
                        ELSE IF from_flags(flags) # FlagsCpuOf(v)
                             THEN Err("ReadFailure")
                             ELSE from_raw(v, flags)
    /\ UNCHANGED <<bytes, endian>>

\* MinidumpContext::read, everything else: the first word selects
ReadByFlags ==
    /\ result = NoResult
    /\ SizeVariant(bytes.len) = "none"
    /\ LET g == Gread(bytes, 0, 4)
           v == FlagsVariant(from_flags(bytes.w0))
       IN  IF ~g.ok
           THEN /\ result' = Err("ReadFailure")
                /\ offset' = g.offset
                /\ ctxType' = "none"
           ELSE IF v = "none"
           THEN /\ result' = Err("UnknownCpuContext")
                /\ offset' = 0
                /\ ctxType' = "none"
           ELSE LET h == Gread(bytes, 0, ContextSize(v))
                IN  /\ ctxType' = v
                    /\ offset' = h.offset
                    /\ result' = IF h.ok THEN from_raw(v, bytes.w0)
                                 ELSE Err("ReadFailure")
    /\ UNCHANGED <<bytes, endian>>

(***************************************************************************)
(* Register state of a decoded context (src/context.rs, CpuContext and the *)
(* accessors of MinidumpContext).  A register value is the sequence of its *)
(* hexadecimal digits, most significant first: 8 digits for a u32 and 16   *)
(* for a u64, so that widening and formatting keep the register's width.   *)
(***************************************************************************)
Zeros(n) == [i \in 1..n |-> 0]

\* mem::size_of::<Self::Register>() of the four CpuContext impls, and the
\* size of the element type of the registers the other variants expose
RegisterSize(v) == IF v \in {"X86", "Arm", "Ppc"} THEN 4 ELSE 8

\* `x as u64`: zero extension
as_u64_sign_extending(x) == [i \in 1..(16 - Len(x)) |-> IF x[1] >= 8 THEN 15 ELSE 0] \o x
as_u64(x) == Zeros(16 - Len(x)) \o x

\* the register values the model stores: zero, a value with leading zero
\* digits, and the largest value
Pal32 == <<Zeros(8), <<0, 0, 4, 0, 0, 10, 11, 12>>, [i \in 1..8 |-> 15]>>
Pal64 ==
    <<Zeros(16), <<0, 0, 0, 0, 7, 15, 15, 7, 1, 2, 3, 4, 5, 6, 7, 8>>, [i \in 1..16 |-> 15]>>
Pal(v) == IF RegisterSize(v) = 4 THEN Pal32 ELSE Pal64
RegisterValues(v) == {Pal(v)[k] : k \in 1..Len(Pal(v))}
Seeds == 0..(Len(Pal64) - 1)
Slot(v, k, s) == Pal(v)[((k + s) % Len(Pal(v))) + 1]

\* md::*RegisterNumbers, the slots of the registers with a role
ArmProgramCounter == 15
ArmStackPointer == 13
Arm64FramePointer == 29
Arm64StackPointer == 31
PpcStackPointer == 1
Ppc64StackPointer == 1
SparcStackPointer == 14
MipsStackPointer == 29

\* MinidumpRawContext: one CONTEXT_* record per variant, with the fields the
\* accessors read or write; slot k of a record filled with value k + s of
\* the palette
RegFile(v, s) ==
    CASE v = "X86" ->
            [variant |-> v, context_flags |-> FlagsCpuOf(v),
             eip |-> Slot(v, 0, s), esp |-> Slot(v, 1, s), ebp |-> Slot(v, 2, s),
             ebx |-> Slot(v, 3, s), esi |-> Slot(v, 4, s), edi |-> Slot(v, 5, s),
             eax |-> Slot(v, 6, s), ecx |-> Slot(v, 7, s), edx |-> Slot(v, 8, s),
             eflags |-> Slot(v, 9, s)]
      [] v = "Amd64" ->
            [variant |-> v, context_flags |-> FlagsCpuOf(v),
             rip |-> Slot(v, 0, s), rax |-> Slot(v, 1, s), rdx |-> Slot(v, 2, s),
             rcx |-> Slot(v, 3, s), rbx |-> Slot(v, 4, s), rsi |-> Slot(v, 5, s),
             rdi |-> Slot(v, 6, s), rbp |-> Slot(v, 7, s), rsp |-> Slot(v, 8, s),
             r8 |-> Slot(v, 9, s), r9 |-> Slot(v, 10, s), r10 |-> Slot(v, 11, s),
             r11 |-> Slot(v, 12, s), r12 |-> Slot(v, 13, s), r13 |-> Slot(v, 14, s),
             r14 |-> Slot(v, 15, s), r15 |-> Slot(v, 16, s)]
      [] v \in {"Arm64", "OldArm64"} ->
            [variant |-> v, context_flags |-> FlagsCpuOf(v),
             pc |-> Slot(v, 0, s), iregs |-> [i \in 0..31 |-> Slot(v, i + 1, s)]]
      [] v = "Arm" ->
            [variant |-> v, context_flags |-> FlagsCpuOf(v),
             iregs |-> [i \in 0..15 |-> Slot(v, i, s)]]
      [] v \in {"Ppc", "Ppc64"} ->
            [variant |-> v, context_flags |-> FlagsCpuOf(v),
             srr0 |-> Slot(v, 0, s), gpr |-> [i \in 0..31 |-> Slot(v, i + 1, s)]]
      [] v = "Sparc" ->
            [variant |-> v, context_flags |-> FlagsCpuOf(v),
             pc |-> Slot(v, 0, s), g_r |-> [i \in 0..31 |-> Slot(v, i + 1, s)]]
      [] v = "Mips" ->
            [variant |-> v, context_flags |-> FlagsCpuOf(v),
             epc |-> Slot(v, 0, s), iregs |-> [i \in 0..31 |-> Slot(v, i + 1, s)]]
RegFiles == {RegFile(v, s) : v \in Variants, s \in Seeds}

\* what a call gives back: a register value, Option<_>, a panic
Val(x) == [kind |-> "val", v |-> x]
Some(x) == [kind |-> "Some", v |-> x]
SomeUnit == [kind |-> "Some", v |-> <<>>]
None == [kind |-> "None"]
Panic == [kind |-> "panic"]

\* MinidumpContextValidity
ValidityAll == [kind |-> "All"]
ValiditySome(which) == [kind |-> "Some", which |-> which]

\* impl CpuContext for md::CONTEXT_X86
X86_get_register_always(raw, reg) ==
    CASE reg = "eip" -> Val(raw.eip)
      [] reg = "esp" -> Val(raw.esp)
      [] reg = "ebp" -> Val(raw.ebp)
      [] reg = "ebx" -> Val(raw.ebx)
      [] reg = "esi" -> Val(raw.esi)
      [] reg = "edi" -> Val(raw.edi)
      [] reg = "eax" -> Val(raw.eax)
      [] reg = "ecx" -> Val(raw.ecx)
      [] reg = "edx" -> Val(raw.edx)
      [] reg = "efl" -> Val(raw.eflags)
      [] OTHER -> Panic

X86_set_register(raw, reg, val) ==
    CASE reg = "eip" -> [out |-> SomeUnit, raw |-> [raw EXCEPT !.eip = val]]
      [] reg = "esp" -> [out |-> SomeUnit, raw |-> [raw EXCEPT !.esp = val]]
      [] reg = "ebp" -> [out |-> SomeUnit, raw |-> [raw EXCEPT !.ebp = val]]
      [] reg = "ebx" -> [out |-> SomeUnit, raw |-> [raw EXCEPT !.ebx = val]]
      [] reg = "esi" -> [out |-> SomeUnit, raw |-> [raw EXCEPT !.esi = val]]
      [] reg = "edi" -> [out |-> SomeUnit, raw |-> [raw EXCEPT !.edi = val]]
      [] reg = "eax" -> [out |-> SomeUnit, raw |-> [raw EXCEPT !.eax = val]]
      [] reg = "ecx" -> [out |-> SomeUnit, raw |-> [raw EXCEPT !.ecx = val]]
      [] reg = "edx" -> [out |-> SomeUnit, raw |-> [raw EXCEPT !.edx = val]]
      [] reg = "efl" -> [out |-> SomeUnit, raw |-> [raw EXCEPT !.eflags = val]]
      [] OTHER -> [out |-> None, raw |-> raw]

\* impl CpuContext for md::CONTEXT_AMD64
AMD64_get_register_always(raw, reg) ==
    CASE reg = "rax" -> Val(raw.rax)
      [] reg = "rdx" -> Val(raw.rdx)
      [] reg = "rcx" -> Val(raw.rcx)
      [] reg = "rbx" -> Val(raw.rbx)
      [] reg = "rsi" -> Val(raw.rsi)
      [] reg = "rdi" -> Val(raw.rdi)
      [] reg = "rbp" -> Val(raw.rbp)
      [] reg = "rsp" -> Val(raw.rsp)
      [] reg = "r8" -> Val(raw.r8)
      [] reg = "r9" -> Val(raw.r9)
      [] reg = "r10" -> Val(raw.r10)
      [] reg = "r11" -> Val(raw.r11)
      [] reg = "r12" -> Val(raw.r12)
      [] reg = "r13" -> Val(raw.r13)
      [] reg = "r14" -> Val(raw.r14)
      [] reg = "r15" -> Val(raw.r15)
      [] reg = "rip" -> Val(raw.rip)
      [] OTHER -> Panic

AMD64_set_register(raw, reg, val) ==
    CASE reg = "rax" -> [out |-> SomeUnit, raw |-> [raw EXCEPT !.rax = val]]
      [] reg = "rdx" -> [out |-> SomeUnit, raw |-> [raw EXCEPT !.rdx = val]]
      [] reg = "rcx" -> [out |-> SomeUnit, raw |-> [raw EXCEPT !.rcx = val]]
      [] reg = "rbx" -> [out |-> SomeUnit, raw |-> [raw EXCEPT !.rbx = val]]
      [] reg = "rsi" -> [out |-> SomeUnit, raw |-> [raw EXCEPT !.rsi = val]]
      [] reg = "rdi" -> [out |-> SomeUnit, raw |-> [raw EXCEPT !.rdi = val]]
      [] reg = "rbp" -> [out |-> SomeUnit, raw |-> [raw EXCEPT !.rbp = val]]
      [] reg = "rsp" -> [out |-> SomeUnit, raw |-> [raw EXCEPT !.rsp = val]]
      [] reg = "r8" -> [out |-> SomeUnit, raw |-> [raw EXCEPT !.r8 = val]]
      [] reg = "r9" -> [out |-> SomeUnit, raw |-> [raw EXCEPT !.r9 = val]]
      [] reg = "r10" -> [out |-> SomeUnit, raw |-> [raw EXCEPT !.r10 = val]]
      [] reg = "r11" -> [out |-> SomeUnit, raw |-> [raw EXCEPT !.r11 = val]]
      [] reg = "r12" -> [out |-> SomeUnit, raw |-> [raw EXCEPT !.r12 = val]]
      [] reg = "r13" -> [out |-> SomeUnit, raw |-> [raw EXCEPT !.r13 = val]]
      [] reg = "r14" -> [out |-> SomeUnit, raw |-> [raw EXCEPT !.r14 = val]]
      [] reg = "r15" -> [out |-> SomeUnit, raw |-> [raw EXCEPT !.r15 = val]]
      [] reg = "rip" -> [out |-> SomeUnit, raw |-> [raw EXCEPT !.rip = val]]
      [] OTHER -> [out |-> None, raw |-> raw]

\* impl CpuContext for md::CONTEXT_ARM64_OLD
ARM64_OLD_get_register_always(raw, reg) ==
    CASE reg = "x0" -> Val(raw.iregs[0])
      [] reg = "x1" -> Val(raw.iregs[1])
      [] reg = "x2" -> Val(raw.iregs[2])
      [] reg = "x3" -> Val(raw.iregs[3])
      [] reg = "x4" -> Val(raw.iregs[4])
      [] reg = "x5" -> Val(raw.iregs[5])
      [] reg = "x6" -> Val(raw.iregs[6])
      [] reg = "x7" -> Val(raw.iregs[7])
      [] reg = "x8" -> Val(raw.iregs[8])
      [] reg = "x9" -> Val(raw.iregs[9])
      [] reg = "x10" -> Val(raw.iregs[10])
      [] reg = "x11" -> Val(raw.iregs[11])
      [] reg = "x12" -> Val(raw.iregs[12])
      [] reg = "x13" -> Val(raw.iregs[13])
      [] reg = "x14" -> Val(raw.iregs[14])
      [] reg = "x15" -> Val(raw.iregs[15])
      [] reg = "x16" -> Val(raw.iregs[16])
      [] reg = "x17" -> Val(raw.iregs[17])
      [] reg = "x18" -> Val(raw.iregs[18])
      [] reg = "x19" -> Val(raw.iregs[19])
      [] reg = "x20" -> Val(raw.iregs[20])
      [] reg = "x21" -> Val(raw.iregs[21])
      [] reg = "x22" -> Val(raw.iregs[22])
      [] reg = "x23" -> Val(raw.iregs[23])
      [] reg = "x24" -> Val(raw.iregs[24])
      [] reg = "x25" -> Val(raw.iregs[25])
      [] reg = "x26" -> Val(raw.iregs[26])
      [] reg = "x27" -> Val(raw.iregs[27])
      [] reg = "x28" -> Val(raw.iregs[28])
      [] reg = "x29" -> Val(raw.iregs[29])
      [] reg = "x30" -> Val(raw.iregs[30])
      [] reg = "x31" -> Val(raw.iregs[31])
      [] reg = "pc" -> Val(raw.pc)
      [] reg = "fp" -> Val(raw.iregs[Arm64FramePointer])
      [] reg = "sp" -> Val(raw.iregs[Arm64StackPointer])
      [] OTHER -> Panic

ARM64_OLD_set_register(raw, reg, val) ==
    CASE reg = "x0" -> [out |-> SomeUnit, raw |-> [raw EXCEPT !.iregs[0] = val]]
      [] reg = "x1" -> [out |-> SomeUnit, raw |-> [raw EXCEPT !.iregs[1] = val]]
      [] reg = "x2" -> [out |-> SomeUnit, raw |-> [raw EXCEPT !.iregs[2] = val]]
      [] reg = "x3" -> [out |-> SomeUnit, raw |-> [raw EXCEPT !.iregs[3] = val]]
      [] reg = "x4" -> [out |-> SomeUnit, raw |-> [raw EXCEPT !.iregs[4] = val]]
      [] reg = "x5" -> [out |-> SomeUnit, raw |-> [raw EXCEPT !.iregs[5] = val]]
      [] reg = "x6" -> [out |-> SomeUnit, raw |-> [raw EXCEPT !.iregs[6] = val]]
      [] reg = "x7" -> [out |-> SomeUnit, raw |-> [raw EXCEPT !.iregs[7] = val]]
      [] reg = "x8" -> [out |-> SomeUnit, raw |-> [raw EXCEPT !.iregs[8] = val]]
      [] reg = "x9" -> [out |-> SomeUnit, raw |-> [raw EXCEPT !.iregs[9] = val]]
      [] reg = "x10" -> [out |-> SomeUnit, raw |-> [raw EXCEPT !.iregs[10] = val]]
      [] reg = "x11" -> [out |-> SomeUnit, raw |-> [raw EXCEPT !.iregs[11] = val]]
      [] reg = "x12" -> [out |-> SomeUnit, raw |-> [raw EXCEPT !.iregs[12] = val]]
      [] reg = "x13" -> [out |-> SomeUnit, raw |-> [raw EXCEPT !.iregs[13] = val]]
      [] reg = "x14" -> [out |-> SomeUnit, raw |-> [raw EXCEPT !.iregs[14] = val]]
      [] reg = "x15" -> [out |-> SomeUnit, raw |-> [raw EXCEPT !.iregs[15] = val]]
      [] reg = "x16" -> [out |-> SomeUnit, raw |-> [raw EXCEPT !.iregs[16] = val]]
      [] reg = "x17" -> [out |-> SomeUnit, raw |-> [raw EXCEPT !.iregs[17] = val]]
      [] reg = "x18" -> [out |-> SomeUnit, raw |-> [raw EXCEPT !.iregs[18] = val]]
      [] reg = "x19" -> [out |-> SomeUnit, raw |-> [raw EXCEPT !.iregs[19] = val]]
      [] reg = "x20" -> [out |-> SomeUnit, raw |-> [raw EXCEPT !.iregs[20] = val]]
      [] reg = "x21" -> [out |-> SomeUnit, raw |-> [raw EXCEPT !.iregs[21] = val]]
      [] reg = "x22" -> [out |-> SomeUnit, raw |-> [raw EXCEPT !.iregs[22] = val]]
      [] reg = "x23" -> [out |-> SomeUnit, raw |-> [raw EXCEPT !.iregs[23] = val]]
      [] reg = "x24" -> [out |-> SomeUnit, raw |-> [raw EXCEPT !.iregs[24] = val]]
      [] reg = "x25" -> [out |-> SomeUnit, raw |-> [raw EXCEPT !.iregs[25] = val]]
      [] reg = "x26" -> [out |-> SomeUnit, raw |-> [raw EXCEPT !.iregs[26] = val]]
      [] reg = "x27" -> [out |-> SomeUnit, raw |-> [raw EXCEPT !.iregs[27] = val]]
      [] reg = "x28" -> [out |-> SomeUnit, raw |-> [raw EXCEPT !.iregs[28] = val]]
      [] reg = "x29" -> [out |-> SomeUnit, raw |-> [raw EXCEPT !.iregs[29] = val]]
      [] reg = "x30" -> [out |-> SomeUnit, raw |-> [raw EXCEPT !.iregs[30] = val]]
      [] reg = "x31" -> [out |-> SomeUnit, raw |-> [raw EXCEPT !.iregs[31] = val]]
      [] reg = "pc" -> [out |-> SomeUnit, raw |-> [raw EXCEPT !.pc = val]]
      [] reg = "fp" -> [out |-> SomeUnit, raw |-> [raw EXCEPT !.iregs[Arm64FramePointer] = val]]
      [] reg = "sp" -> [out |-> SomeUnit, raw |-> [raw EXCEPT !.iregs[Arm64StackPointer] = val]]
      [] OTHER -> [out |-> None, raw |-> raw]

\* impl CpuContext for md::CONTEXT_ARM64
ARM64_get_register_always(raw, reg) ==
    CASE reg = "x0" -> Val(raw.iregs[0])
      [] reg = "x1" -> Val(raw.iregs[1])
      [] reg = "x2" -> Val(raw.iregs[2])
      [] reg = "x3" -> Val(raw.iregs[3])
      [] reg = "x4" -> Val(raw.iregs[4])
      [] reg = "x5" -> Val(raw.iregs[5])
      [] reg = "x6" -> Val(raw.iregs[6])
      [] reg = "x7" -> Val(raw.iregs[7])
      [] reg = "x8" -> Val(raw.iregs[8])
      [] reg = "x9" -> Val(raw.iregs[9])
      [] reg = "x10" -> Val(raw.iregs[10])
      [] reg = "x11" -> Val(raw.iregs[11])
      [] reg = "x12" -> Val(raw.iregs[12])
      [] reg = "x13" -> Val(raw.iregs[13])
      [] reg = "x14" -> Val(raw.iregs[14])
      [] reg = "x15" -> Val(raw.iregs[15])
      [] reg = "x16" -> Val(raw.iregs[16])
      [] reg = "x17" -> Val(raw.iregs[17])
      [] reg = "x18" -> Val(raw.iregs[18])
      [] reg = "x19" -> Val(raw.iregs[19])
      [] reg = "x20" -> Val(raw.iregs[20])
      [] reg = "x21" -> Val(raw.iregs[21])
      [] reg = "x22" -> Val(raw.iregs[22])
      [] reg = "x23" -> Val(raw.iregs[23])
      [] reg = "x24" -> Val(raw.iregs[24])
      [] reg = "x25" -> Val(raw.iregs[25])
      [] reg = "x26" -> Val(raw.iregs[26])
      [] reg = "x27" -> Val(raw.iregs[27])
      [] reg = "x28" -> Val(raw.iregs[28])
      [] reg = "x29" -> Val(raw.iregs[29])
      [] reg = "x30" -> Val(raw.iregs[30])
      [] reg = "x31" -> Val(raw.iregs[31])
      [] reg = "pc" -> Val(raw.pc)
      [] reg = "fp" -> Val(raw.iregs[Arm64FramePointer])
      [] reg = "sp" -> Val(raw.iregs[Arm64StackPointer])
      [] OTHER -> Panic

ARM64_set_register(raw, reg, val) ==
    CASE reg = "x0" -> [out |-> SomeUnit, raw |-> [raw EXCEPT !.iregs[0] = val]]
      [] reg = "x1" -> [out |-> SomeUnit, raw |-> [raw EXCEPT !.iregs[1] = val]]
      [] reg = "x2" -> [out |-> SomeUnit, raw |-> [raw EXCEPT !.iregs[2] = val]]
      [] reg = "x3" -> [out |-> SomeUnit, raw |-> [raw EXCEPT !.iregs[3] = val]]
      [] reg = "x4" -> [out |-> SomeUnit, raw |-> [raw EXCEPT !.iregs[4] = val]]
      [] reg = "x5" -> [out |-> SomeUnit, raw |-> [raw EXCEPT !.iregs[5] = val]]
      [] reg = "x6" -> [out |-> SomeUnit, raw |-> [raw EXCEPT !.iregs[6] = val]]
      [] reg = "x7" -> [out |-> SomeUnit, raw |-> [raw EXCEPT !.iregs[7] = val]]
      [] reg = "x8" -> [out |-> SomeUnit, raw |-> [raw EXCEPT !.iregs[8] = val]]
      [] reg = "x9" -> [out |-> SomeUnit, raw |-> [raw EXCEPT !.iregs[9] = val]]
      [] reg = "x10" -> [out |-> SomeUnit, raw |-> [raw EXCEPT !.iregs[10] = val]]
      [] reg = "x11" -> [out |-> SomeUnit, raw |-> [raw EXCEPT !.iregs[11] = val]]
      [] reg = "x12" -> [out |-> SomeUnit, raw |-> [raw EXCEPT !.iregs[12] = val]]
      [] reg = "x13" -> [out |-> SomeUnit, raw |-> [raw EXCEPT !.iregs[13] = val]]
      [] reg = "x14" -> [out |-> SomeUnit, raw |-> [raw EXCEPT !.iregs[14] = val]]
      [] reg = "x15" -> [out |-> SomeUnit, raw |-> [raw EXCEPT !.iregs[15] = val]]
      [] reg = "x16" -> [out |-> SomeUnit, raw |-> [raw EXCEPT !.iregs[16] = val]]
      [] reg = "x17" -> [out |-> SomeUnit, raw |-> [raw EXCEPT !.iregs[17] = val]]
      [] reg = "x18" -> [out |-> SomeUnit, raw |-> [raw EXCEPT !.iregs[18] = val]]
      [] reg = "x19" -> [out |-> SomeUnit, raw |-> [raw EXCEPT !.iregs[19] = val]]
      [] reg = "x20" -> [out |-> SomeUnit, raw |-> [raw EXCEPT !.iregs[20] = val]]
      [] reg = "x21" -> [out |-> SomeUnit, raw |-> [raw EXCEPT !.iregs[21] = val]]
      [] reg = "x22" -> [out |-> SomeUnit, raw |-> [raw EXCEPT !.iregs[22] = val]]
      [] reg = "x23" -> [out |-> SomeUnit, raw |-> [raw EXCEPT !.iregs[23] = val]]
      [] reg = "x24" -> [out |-> SomeUnit, raw |-> [raw EXCEPT !.iregs[24] = val]]
      [] reg = "x25" -> [out |-> SomeUnit, raw |-> [raw EXCEPT !.iregs[25] = val]]
      [] reg = "x26" -> [out |-> SomeUnit, raw |-> [raw EXCEPT !.iregs[26] = val]]
      [] reg = "x27" -> [out |-> SomeUnit, raw |-> [raw EXCEPT !.iregs[27] = val]]
      [] reg = "x28" -> [out |-> SomeUnit, raw |-> [raw EXCEPT !.iregs[28] = val]]
      [] reg = "x29" -> [out |-> SomeUnit, raw |-> [raw EXCEPT !.iregs[29] = val]]
      [] reg = "x30" -> [out |-> SomeUnit, raw |-> [raw EXCEPT !.iregs[30] = val]]
      [] reg = "x31" -> [out |-> SomeUnit, raw |-> [raw EXCEPT !.iregs[31] = val]]
      [] reg = "pc" -> [out |-> SomeUnit, raw |-> [raw EXCEPT !.pc = val]]
      [] reg = "fp" -> [out |-> SomeUnit, raw |-> [raw EXCEPT !.iregs[Arm64FramePointer] = val]]
      [] reg = "sp" -> [out |-> SomeUnit, raw |-> [raw EXCEPT !.iregs[Arm64StackPointer] = val]]
      [] OTHER -> [out |-> None, raw |-> raw]

\* the variants whose CONTEXT_* record implements CpuContext
CpuContextImpls == {"X86", "Amd64", "OldArm64", "Arm64"}

\* the call of a CpuContext method on the record a context holds
get_register_always_fp_is_x30(raw, reg) ==
    LET name == IF reg = "fp" THEN "x30" ELSE reg
    IN  CASE raw.variant = "X86" -> X86_get_register_always(raw, reg)
          [] raw.variant = "Amd64" -> AMD64_get_register_always(raw, reg)
          [] raw.variant = "OldArm64" -> ARM64_OLD_get_register_always(raw, name)
          [] raw.variant = "Arm64" -> ARM64_get_register_always(raw, name)
get_register_always(raw, reg) ==
    CASE raw.variant = "X86" -> X86_get_register_always(raw, reg)
      [] raw.variant = "Amd64" -> AMD64_get_register_always(raw, reg)
      [] raw.variant = "OldArm64" -> ARM64_OLD_get_register_always(raw, reg)
      [] raw.variant = "Arm64" -> ARM64_get_register_always(raw, reg)

set_register_eax_into_edx(raw, reg, val) ==
    IF raw.variant = "X86" /\ reg = "eax"
    THEN [out |-> SomeUnit, raw |-> [raw EXCEPT !.eax = val, !.edx = val]]
    ELSE CASE raw.variant = "X86" -> X86_set_register(raw, reg, val)
           [] raw.variant = "Amd64" -> AMD64_set_register(raw, reg, val)
           [] raw.variant = "OldArm64" -> ARM64_OLD_set_register(raw, reg, val)
           [] raw.variant = "Arm64" -> ARM64_set_register(raw, reg, val)
set_register_any_case(raw, reg, val) ==
    LET name == CASE reg = "EIP" -> "eip"
                  [] reg = "Rax" -> "rax"
                  [] reg = "X29" -> "x29"
                  [] OTHER -> reg
    IN  CASE raw.variant = "X86" -> X86_set_register(raw, name, val)
          [] raw.variant = "Amd64" -> AMD64_set_register(raw, name, val)
          [] raw.variant = "OldArm64" -> ARM64_OLD_set_register(raw, name, val)
          [] raw.variant = "Arm64" -> ARM64_set_register(raw, name, val)
set_register(raw, reg, val) ==
    CASE raw.variant = "X86" -> X86_set_register(raw, reg, val)
      [] raw.variant = "Amd64" -> AMD64_set_register(raw, reg, val)
      [] raw.variant = "OldArm64" -> ARM64_OLD_set_register(raw, reg, val)
      [] raw.variant = "Arm64" -> ARM64_set_register(raw, reg, val)

stack_pointer_register_name_fp(raw) ==
    CASE raw.variant = "X86" -> "esp"
      [] raw.variant = "Amd64" -> "rsp"
      [] raw.variant = "OldArm64" -> "fp"
      [] raw.variant = "Arm64" -> "fp"
stack_pointer_register_name(raw) ==
    CASE raw.variant = "X86" -> "esp"
      [] raw.variant = "Amd64" -> "rsp"
      [] raw.variant = "OldArm64" -> "sp"
      [] raw.variant = "Arm64" -> "sp"

instruction_pointer_register_name(raw) ==
    CASE raw.variant = "X86" -> "eip"
      [] raw.variant = "Amd64" -> "rip"
      [] raw.variant = "OldArm64" -> "pc"
      [] raw.variant = "Arm64" -> "pc"

\* CpuContext::get_register
get_register_any_valid(raw, reg, valid) ==
    LET r == get_register_always(raw, reg)
    IN  IF r = Panic THEN Panic ELSE Some(r.v)
get_register(raw, reg, valid) ==
    IF valid.kind = "Some" /\ reg \notin valid.which
    THEN None
    ELSE LET r == get_register_always(raw, reg)
         IN  IF r = Panic THEN Panic ELSE Some(r.v)

\* fmt::LowerHex with the flag `0` and a minimum width: the digits of x
\* without leading zeros, filled with "0" on the left up to the width
HexDigits == <<"0", "1", "2", "3", "4", "5", "6", "7", "8", "9", "a", "b", "c", "d", "e", "f">>
RECURSIVE Significant(_)
Significant(x) == IF Len(x) > 1 /\ Head(x) = 0 THEN Significant(Tail(x)) ELSE x
LowerHex(x, width) ==
    LET digits == [i \in 1..Len(Significant(x)) |-> HexDigits[Significant(x)[i] + 1]]
    IN  IF Len(digits) >= width THEN digits
        ELSE [i \in 1..(width - Len(digits)) |-> "0"] \o digits

\* CpuContext::format_register: format!("0x{:01$x}", value, size_of * 2)
Str(s) == [kind |-> "String", s |-> s]
format_register_byte_width(raw, reg) ==
    LET r == get_register_always(raw, reg)
    IN  IF r = Panic THEN Panic
        ELSE Str(<<"0", "x">> \o LowerHex(r.v, RegisterSize(raw.variant)))
format_register(raw, reg) ==
    LET r == get_register_always(raw, reg)
    IN  IF r = Panic THEN Panic
        ELSE Str(<<"0", "x">> \o LowerHex(r.v, RegisterSize(raw.variant) * 2))

\* the static register name lists
X86_REGS == <<"eip", "esp", "ebp", "ebx", "esi", "edi", "eax", "ecx", "edx", "efl">>
X86_64_REGS ==
    <<"rax", "rdx", "rcx", "rbx", "rsi", "rdi", "rbp", "rsp", "r8", "r9", "r10", "r11",
      "r12", "r13", "r14", "r15", "rip">>
ARM64_REGS ==
    <<"x0", "x1", "x2", "x3", "x4", "x5", "x6", "x7", "x8", "x9", "x10", "x11", "x12",
      "x13", "x14", "x15", "x16", "x17", "x18", "x19", "x20", "x21", "x22", "x23", "x24",
      "x25", "x26", "x27", "x28", "x29", "x30", "x31", "pc">>

\* CpuContext::memoize_register: the static name at the position of reg in
\* the register list of the architecture
memoize_register(raw, reg) ==
    LET regs == CASE raw.variant = "X86" -> X86_REGS
                  [] raw.variant = "Amd64" -> X86_64_REGS
                  [] raw.variant = "OldArm64" -> ARM64_REGS
                  [] raw.variant = "Arm64" -> ARM64_REGS
        position == {i \in 1..Len(regs) : regs[i] = reg}
    IN  IF position = {} THEN None
        ELSE Some(regs[CHOOSE idx \in position : \A i \in position : idx <= i])
\* MinidumpContext::get_instruction_pointer
get_instruction_pointer(c) ==
    CASE c.raw.variant = "Amd64" -> c.raw.rip
      [] c.raw.variant = "Arm" -> as_u64(c.raw.iregs[ArmProgramCounter])
      [] c.raw.variant = "Arm64" -> c.raw.pc
      [] c.raw.variant = "OldArm64" -> c.raw.pc
      [] c.raw.variant = "Ppc" -> as_u64(c.raw.srr0)
      [] c.raw.variant = "Ppc64" -> c.raw.srr0
      [] c.raw.variant = "Sparc" -> c.raw.pc
      [] c.raw.variant = "X86" -> as_u64(c.raw.eip)
      [] c.raw.variant = "Mips" -> c.raw.epc

\* MinidumpContext::get_stack_pointer
get_stack_pointer(c) ==
    CASE c.raw.variant = "Amd64" -> c.raw.rsp
      [] c.raw.variant = "Arm" -> as_u64(c.raw.iregs[ArmStackPointer])
      [] c.raw.variant = "Arm64" -> c.raw.iregs[Arm64StackPointer]
      [] c.raw.variant = "OldArm64" -> c.raw.iregs[Arm64StackPointer]
      [] c.raw.variant = "Ppc" -> as_u64(c.raw.gpr[PpcStackPointer])
      [] c.raw.variant = "Ppc64" -> c.raw.gpr[Ppc64StackPointer]
      [] c.raw.variant = "Sparc" -> c.raw.g_r[SparcStackPointer]
      [] c.raw.variant = "X86" -> as_u64(c.raw.esp)
      [] c.raw.variant = "Mips" -> c.raw.iregs[MipsStackPointer]

\* MinidumpContext::format_register
MinidumpContext_format_register(c, reg) ==
    IF c.raw.variant \in {"Amd64", "Arm64", "OldArm64", "X86"}
    THEN format_register(c.raw, reg)
    ELSE Panic

\* MinidumpContext::general_purpose_registers
general_purpose_registers(c) ==
    CASE c.raw.variant = "Amd64" -> Val(X86_64_REGS)
      [] c.raw.variant \in {"Arm64", "OldArm64"} -> Val(ARM64_REGS)
      [] c.raw.variant = "X86" -> Val(X86_REGS)
      [] OTHER -> Panic

\* the calls made on a context
Elems(s) == {s[i] : i \in 1..Len(s)}
RegNames ==
    Elems(X86_REGS) \cup Elems(X86_64_REGS) \cup Elems(ARM64_REGS)
        \cup {"fp", "sp", "EIP", "Rax", "X29", "x32", "eflags", ""}
Validities ==
    {ValidityAll, ValiditySome({}),
     ValiditySome({"eip", "ebp", "rip", "rbp", "pc", "fp", "x31"})}
MaxCalls == 1

\* a context exists, the thread has not panicked
Running ==
    /\ ctx # NoResult
    /\ ret.out # Panic
    /\ calls < MaxCalls

\* MinidumpContext::from_raw on a record of any variant
FromRaw ==
    /\ ctx = NoResult
    /\ \E f \in RegFiles : ctx' = from_raw(f, f.context_flags)
    /\ UNCHANGED <<ret, calls>>

GetRegister ==
    /\ Running
    /\ ctx.raw.variant \in CpuContextImpls
    /\ \E reg \in RegNames, valid \in Validities :
            ret' = [op |-> "get_register", reg |-> reg, valid |-> valid,
                    out |-> get_register(ctx.raw, reg, valid)]
    /\ calls' = calls + 1
    /\ UNCHANGED ctx

GetRegisterAlways ==
    /\ Running
    /\ ctx.raw.variant \in CpuContextImpls
    /\ \E reg \in RegNames :
            ret' = [op |-> "get_register_always", reg |-> reg,
                    out |-> get_register_always(ctx.raw, reg)]
    /\ calls' = calls + 1
    /\ UNCHANGED ctx

SetRegister ==
    /\ Running
    /\ ctx.raw.variant \in CpuContextImpls
    /\ \E reg \in RegNames, val \in RegisterValues(ctx.raw.variant) :
            LET r == set_register(ctx.raw, reg, val)
            IN  /\ ctx' = [ctx EXCEPT !.raw = r.raw]
                /\ ret' = [op |-> "set_register", reg |-> reg, val |-> val, out |-> r.out]
    /\ calls' = calls + 1

MemoizeRegister ==
    /\ Running
    /\ ctx.raw.variant \in CpuContextImpls
    /\ \E reg \in RegNames :
            ret' = [op |-> "memoize_register", reg |-> reg,
                    out |-> memoize_register(ctx.raw, reg)]
    /\ calls' = calls + 1
    /\ UNCHANGED ctx
FormatRegister ==
    /\ Running
    /\ \E reg \in RegNames :
            ret' = [op |-> "format_register", reg |-> reg,
                    out |-> MinidumpContext_format_register(ctx, reg)]
    /\ calls' = calls + 1
    /\ UNCHANGED ctx

GeneralPurposeRegisters ==
    /\ Running
    /\ ret' = [op |-> "general_purpose_registers", out |-> general_purpose_registers(ctx)]
    /\ calls' = calls + 1
    /\ UNCHANGED ctx

GetInstructionPointer ==
    /\ Running
    /\ ret' = [op |-> "get_instruction_pointer", out |-> Val(get_instruction_pointer(ctx))]
    /\ calls' = calls + 1
    /\ UNCHANGED ctx

GetStackPointer ==
    /\ Running
    /\ ret' = [op |-> "get_stack_pointer", out |-> Val(get_stack_pointer(ctx))]
    /\ calls' = calls + 1
    /\ UNCHANGED ctx

\* the blobs the decoder is tried on
LowBits == {0, 1, 2, 3, 4, 5}
FlagWords ==
    {CONTEXT_X86 \cup {0}, CONTEXT_PPC \cup {0, 1}, CONTEXT_SPARC, CONTEXT_ARM \cup {1},
     CONTEXT_ARM64, CONTEXT_MIPS \cup {0}, CONTEXT_AMD64 \cup LowBits, CONTEXT_PPC64,
     CONTEXT_ARM64_OLD, CONTEXT_ARM_OLD, {}, CONTEXT_X86 \cup CONTEXT_AMD64,
     {16, 18, 19, 21, 23, 25, 26, 27, 28, 30, 31}}
FieldWords ==
    {CONTEXT_AMD64 \cup LowBits, CONTEXT_PPC64, CONTEXT_ARM64_OLD, CONTEXT_X86 \cup {0}, {}}
Slack == 1
Lengths ==
    {0, 3, 4, 200}
        \cup {ContextSize(v) : v \in Variants}
        \cup {ContextSize(v) - Slack : v \in Variants}
        \cup {ContextSize(v) + Slack : v \in Variants}

Blobs ==
    {b \in [len : Lengths, w0 : FlagWords, w1 : FieldWords, w12 : FieldWords] :
        /\ b.len < 4 => b.w0 = {}
        /\ b.len \notin {ContextSize("Ppc64"), ContextSize("OldArm64")} => b.w1 = {}
        /\ b.len # ContextSize("Amd64") => b.w12 = {}}

RangeIdle ==
    /\ items = <<>>
    /\ input = <<>>
    /\ pos = 0
    /\ vec = <<>>
    /\ warnings = <<>>
    /\ pc = "idle"

InitRead ==
    /\ bytes \in Blobs
    /\ endian \in {"Little", "Big"}
    /\ offset = 0
    /\ ctxType = "none"
    /\ result = NoResult
    /\ RangeIdle
    /\ CtxIdle
    /\ FrameIdle
    /\ StateIdle
    /\ DumpIdle

NextRead ==
    \/ ReadBySize /\ UNCHANGED <<stateVars, rangeVars, ctxVars, frameVars, dumpVars>>
    \/ ReadByFlags /\ UNCHANGED <<stateVars, rangeVars, ctxVars, frameVars, dumpVars>>
    \/ FromRaw /\ UNCHANGED <<stateVars, rangeVars, readVars, frameVars, dumpVars>>

SpecRead == InitRead /\ [][NextRead]_vars

InitCtx ==
    /\ CtxIdle
    /\ RangeIdle
    /\ ReadIdle
    /\ FrameIdle
    /\ StateIdle
    /\ DumpIdle

NextCtx ==
    \/ FromRaw /\ UNCHANGED <<stateVars, rangeVars, readVars, frameVars, dumpVars>>
    \/ GetRegister /\ UNCHANGED <<stateVars, rangeVars, readVars, frameVars, dumpVars>>
    \/ GetRegisterAlways /\ UNCHANGED <<stateVars, rangeVars, readVars, frameVars, dumpVars>>
    \/ SetRegister /\ UNCHANGED <<stateVars, rangeVars, readVars, frameVars, dumpVars>>
    \/ MemoizeRegister /\ UNCHANGED <<stateVars, rangeVars, readVars, frameVars, dumpVars>>
    \/ FormatRegister /\ UNCHANGED <<stateVars, rangeVars, readVars, frameVars, dumpVars>>
    \/ GeneralPurposeRegisters /\ UNCHANGED <<stateVars, rangeVars, readVars, frameVars, dumpVars>>
    \/ GetInstructionPointer /\ UNCHANGED <<stateVars, rangeVars, readVars, frameVars, dumpVars>>
    \/ GetStackPointer /\ UNCHANGED <<stateVars, rangeVars, readVars, frameVars, dumpVars>>

SpecCtx == InitCtx /\ [][NextCtx]_vars

(***************************************************************************)
(* StackFrame (minidump-processor/src/process_state.rs).                   *)
(***************************************************************************)
FrameTrust == {"None", "Scan", "CfiScan", "FramePointer", "CallFrameInfo", "PreWalked", "Context"}

\* StackFrame::from_context
from_context(context, trust) ==
    [kind |-> "StackFrame",
     instruction |-> get_instruction_pointer(context),
     module |-> None,
     function_name |-> None,
     function_base |-> None,
     parameter_size |-> None,
     source_file_name |-> None,
     source_line |-> None,
     source_line_base |-> None,
     trust |-> trust,
     context |-> context]

\* StackFrame::return_address
return_address(f) == f.instruction

\* impl FrameSymbolizer for StackFrame
get_instruction(f) == f.instruction

set_function_dropping_source(f, name, base, parameter_size) ==
    [f EXCEPT !.function_name = Some(name),
              !.function_base = Some(base),
              !.parameter_size = Some(parameter_size),
              !.source_file_name = None]
set_function(f, name, base, parameter_size) ==
    [f EXCEPT !.function_name = Some(name),
              !.function_base = Some(base),
              !.parameter_size = Some(parameter_size)]

set_source_file(f, src, line, base) ==
    [f EXCEPT !.source_file_name = Some(src),
              !.source_line = Some(line),
              !.source_line_base = Some(base)]

\* the arguments the symbolizer calls are made with
SymbolNames == {"main", "f"}
SourceFiles == {"a.c", "b.c"}
SymbolBases == {Pal64[1], Pal64[2]}
SymbolSizes == {Pal32[1], Pal32[2]}

FromContext ==
    /\ ctx.kind = "Ok"
    /\ frame = NoFrame
    /\ \E trust \in FrameTrust :
            /\ frame' = from_context(ctx, trust)
            /\ ret' = [op |-> "from_context", trust |-> trust, out |-> [kind |-> "StackFrame"]]
    /\ UNCHANGED <<ctx, calls>>

ReturnAddress ==
    /\ frame # NoFrame
    /\ ret' = [op |-> "return_address", out |-> Val(return_address(frame))]
    /\ UNCHANGED <<ctx, calls, frame>>

GetInstruction ==
    /\ frame # NoFrame
    /\ ret' = [op |-> "get_instruction", out |-> Val(get_instruction(frame))]
    /\ UNCHANGED <<ctx, calls, frame>>

SetFunction ==
    /\ frame # NoFrame
    /\ \E name \in SymbolNames, base \in SymbolBases, parameter_size \in SymbolSizes :
            /\ frame' = set_function(frame, name, base, parameter_size)
            /\ ret' = [op |-> "set_function", name |-> name, base |-> base,
                       parameter_size |-> parameter_size, out |-> [kind |-> "unit"]]
    /\ UNCHANGED <<ctx, calls>>

SetSourceFile ==
    /\ frame # NoFrame
    /\ \E src \in SourceFiles, line \in SymbolSizes, base \in SymbolBases :
            /\ frame' = set_source_file(frame, src, line, base)
            /\ ret' = [op |-> "set_source_file", file |-> src, line |-> line,
                       base |-> base, out |-> [kind |-> "unit"]]
    /\ UNCHANGED <<ctx, calls>>

InitFrame ==
    /\ FrameIdle
    /\ StateIdle
    /\ CtxIdle
    /\ RangeIdle
    /\ ReadIdle
    /\ DumpIdle

NextFrame ==
    \/ FromRaw /\ UNCHANGED <<stateVars, rangeVars, readVars, frameVars, dumpVars>>
    \/ FromContext /\ UNCHANGED <<stateVars, rangeVars, readVars, dumpVars>>
    \/ ReturnAddress /\ UNCHANGED <<stateVars, rangeVars, readVars, dumpVars>>
    \/ GetInstruction /\ UNCHANGED <<stateVars, rangeVars, readVars, dumpVars>>
    \/ SetFunction /\ UNCHANGED <<stateVars, rangeVars, readVars, dumpVars>>
    \/ SetSourceFile /\ UNCHANGED <<stateVars, rangeVars, readVars, dumpVars>>

SpecFrame == InitFrame /\ [][NextFrame]_vars
(***************************************************************************)
(* The Minidump facade: the stream directory of a file, the index read     *)
(* builds from it, and the two ways to reach a stream.                     *)
(***************************************************************************)
\* stream kinds: ThreadListStream, ModuleListStream, SystemInfoStream
ThreadListStream == 3
ModuleListStream == 4
SystemInfoStream == 7
StreamKinds == {ThreadListStream, ModuleListStream, SystemInfoStream}

\* a directory entry: the kind and where the payload lies
NumLocations == 2
MaxStreams == 3
Locations == 1..NumLocations
DirEntry == [stream_type : StreamKinds, location : Locations]

\* one entry put into the mapping kind -> entry: a kind that is already
\* indexed keeps its entry
IndexedOverwriting(map, e) ==
    [k \in DOMAIN map \cup {e.stream_type} |-> IF k = e.stream_type THEN e ELSE map[k]]
Indexed(map, e) ==
    IF e.stream_type \in DOMAIN map THEN map
    ELSE [k \in DOMAIN map \cup {e.stream_type} |-> IF k = e.stream_type THEN e ELSE map[k]]

\* the mapping kind -> entry, keyed by the first occurrence
RECURSIVE IndexFirst(_, _)
IndexFirst(dir, map) ==
    IF dir = <<>> THEN map ELSE IndexFirst(Tail(dir), Indexed(map, Head(dir)))

\* Minidump::read: own the bytes, index the directory and keep the raw
\* entry list
MinidumpRead ==
    /\ dump = NoDump
    /\ dump' = [kind |-> "Minidump", data |-> truncated, directory |-> file,
                streams |-> IndexFirst(file, <<>>)]
    /\ ret' = [op |-> "read", out |-> [kind |-> "Minidump"],
               after_failure |-> ret.out.kind = "Err"]
    /\ UNCHANGED <<file, truncated, ctx, calls>>

\* Minidump::get_stream: look the kind up in the index and decode the bytes
\* it points to
get_stream(d, k) ==
    IF k \notin DOMAIN d.streams THEN Err("StreamNotFound")
    ELSE IF d.streams[k].location \in d.data THEN Err("StreamReadFailure")
    ELSE Some(d.streams[k])

\* a call of get_stream; after_failure tells whether the call made before
\* it failed
GetStreamForgettingFailed ==
    /\ dump # NoDump
    /\ \E k \in StreamKinds :
            /\ ret' = [op |-> "get_stream", stream_type |-> k, out |-> get_stream(dump, k),
                       after_failure |-> ret.out.kind = "Err"]
            /\ dump' = IF get_stream(dump, k) = Err("StreamReadFailure")
                       THEN [dump EXCEPT !.streams = <<>>]
                       ELSE dump
    /\ UNCHANGED <<file, truncated, ctx, calls>>
GetStream ==
    /\ dump # NoDump
    /\ \E k \in StreamKinds :
            ret' = [op |-> "get_stream", stream_type |-> k, out |-> get_stream(dump, k),
                    after_failure |-> ret.out.kind = "Err"]
    /\ UNCHANGED <<file, truncated, dump, ctx, calls>>

\* Minidump::all_streams: the raw entry list
AllStreams ==
    /\ dump # NoDump
    /\ ret' = [op |-> "all_streams", out |-> Val(dump.directory),
               after_failure |-> ret.out.kind = "Err"]
    /\ UNCHANGED <<file, truncated, dump, ctx, calls>>

InitDump ==
    /\ file \in SeqsUpTo(DirEntry, MaxStreams)
    /\ truncated \in SUBSET Locations
    /\ dump = NoDump
    /\ CtxIdle
    /\ FrameIdle
    /\ StateIdle
    /\ RangeIdle
    /\ ReadIdle

NextDump ==
    \/ MinidumpRead /\ UNCHANGED <<stateVars, rangeVars, readVars, frameVars>>
    \/ GetStream /\ UNCHANGED <<stateVars, rangeVars, readVars, frameVars>>
    \/ AllStreams /\ UNCHANGED <<stateVars, rangeVars, readVars, frameVars>>

SpecDump == InitDump /\ [][NextDump]_vars

(***************************************************************************)
(* CallStack and ProcessState (minidump-processor/src/process_state.rs).   *)
(***************************************************************************)
CallStackInfo == {"Ok", "MissingContext", "MissingMemory", "UnsupportedCpu", "DumpThreadSkipped"}

\* FrameTrust::description
description(trust) ==
    CASE trust = "Context" -> "given as instruction pointer in context"
      [] trust = "PreWalked" -> "recovered by external stack walker"
      [] trust = "CallFrameInfo" -> "call frame info"
      [] trust = "CfiScan" -> "call frame info with scanning"
      [] trust = "FramePointer" -> "previous frame's frame pointer"
      [] trust = "Scan" -> "stack scanning"
      [] trust = "None" -> "unknown"

\* the registers print_registers and json_registers go through: the
\* general purpose registers of the context, in their known order, that
\* are valid, each with its formatted value
ValidRegisters(c) ==
    LET gpr == general_purpose_registers(c)
        registers == IF c.valid = ValidityAll THEN Elems(gpr.v) ELSE c.valid.which
    IN  IF gpr = Panic THEN Panic
        ELSE Val(SelectSeq([k \in 1..Len(gpr.v) |->
                                [reg |-> gpr.v[k],
                                 reg_val |-> MinidumpContext_format_register(c, gpr.v[k])]],
                           LAMBDA r : r.reg \in registers))

\* print_registers: the lines " reg = value" of the valid registers
print_registers(c) == ValidRegisters(c)

\* CallStack::print: "<no frames>", or for every frame its number and
\* address, its registers and how it was found; a frame whose context has
\* no register list makes the thread panic after the frames before it
RECURSIVE PrintFrames(_, _, _)
PrintFrames(frames, k, lines) ==
    IF k > Len(frames) THEN [lines |-> lines, out |-> [kind |-> "Ok"]]
    ELSE LET registers == print_registers(frames[k].context)
         IN  IF registers = Panic
             THEN [lines |-> Append(lines, [frame |-> k - 1, addr |-> frames[k].instruction]),
                   out |-> Panic]
             ELSE PrintFrames(frames, k + 1,
                              Append(lines, [frame |-> k - 1, addr |-> frames[k].instruction,
                                             registers |-> registers.v,
                                             found_by |-> description(frames[k].trust)]))

CallStack_print(stack) ==
    IF stack.frames = <<>> THEN [lines |-> <<[text |-> "<no frames>"]>>, out |-> [kind |-> "Ok"]]
    ELSE PrintFrames(stack.frames, 1, <<>>)

\* eq_some
eq_some(opt, val) == IF opt = None THEN FALSE ELSE opt.v = val

\* CallStack::with_info and a CallStack with frames
with_info(info) == [frames |-> <<>>, info |-> info]
CallStack(frames, info) == [frames |-> frames, info |-> info]

\* the Cpu values ProcessState::json_hex tells apart
Cpus == {"X86", "X86_64", "Ppc", "Ppc64", "Sparc", "Arm", "Arm64", "Unknown"}

\* a ProcessState with the fields print and print_json go by
\* (system_info.cpu, crash_address, requesting_thread, threads; it has no
\* modules and no unloaded modules)
ProcessState(cpu, crash_address, requesting_thread, threads) ==
    [kind |-> "ProcessState", cpu |-> cpu, crash_address |-> crash_address,
     requesting_thread |-> requesting_thread, threads |-> threads]

\* the contexts of the frames: an x86 context with every register valid,
\* an x86-64 context of a frame the stack walker recovered two registers
\* of, an ARM context
FrameContexts ==
    << from_raw(RegFile("X86", 1), FlagsCpuOf("X86")),
       [from_raw(RegFile("Amd64", 1), FlagsCpuOf("Amd64")) EXCEPT
            !.valid = ValiditySome({"rip", "rsp"})],
       from_raw(RegFile("Arm", 1), FlagsCpuOf("Arm")) >>

MaxThreads == 2

(***************************************************************************)
(* ProcessState::print, one step per block of writes: the heading, the     *)
(* requesting thread, each turn of the loop over the threads, the module   *)
(* lists.  `written` holds what reached `f`; a write may fail, and then    *)
(* print returns the error with a part of the block written.               *)
(***************************************************************************)
\* "Thread {}" or "Thread {} ({})" and the call stack of thread number n
\* (threads[n] of the source is threads[n + 1] here)
ThreadHeading(n, requesting) == [kind |-> "Thread", index |-> n, requesting |-> requesting]
StackLines(n, lines) == [kind |-> "CallStack", index |-> n, lines |-> lines]
BlankLine == [kind |-> "blank"]

\* the block `if let Some(requesting_thread) = self.requesting_thread`
RequestingBlock(s) ==
    LET n == s.requesting_thread.v
        p == CallStack_print(s.threads[n + 1])
    IN  IF s.requesting_thread = None THEN [items |-> <<>>, out |-> [kind |-> "Ok"]]
        ELSE IF n >= Len(s.threads)
             THEN [items |-> <<ThreadHeading(n, TRUE)>>, out |-> Panic]
        ELSE IF p.out = Panic
             THEN [items |-> <<ThreadHeading(n, TRUE), StackLines(n, p.lines)>>, out |-> Panic]
        ELSE [items |-> <<ThreadHeading(n, TRUE), StackLines(n, p.lines), BlankLine>>,
              out |-> [kind |-> "Ok"]]

\* the loop without its first `continue`
LoopBlockRequestingAgain(s, n) ==
    LET stack == s.threads[n + 1]
        p == CallStack_print(stack)
    IN  IF stack.info = "DumpThreadSkipped" THEN [items |-> <<>>, out |-> [kind |-> "Ok"]]
        ELSE [items |-> <<ThreadHeading(n, FALSE), StackLines(n, p.lines)>>, out |-> p.out]

\* one turn of `for (i, stack) in self.threads.iter().enumerate()`
LoopBlock(s, n) ==
    LET stack == s.threads[n + 1]
        p == CallStack_print(stack)
    IN  IF eq_some(s.requesting_thread, n) THEN [items |-> <<>>, out |-> [kind |-> "Ok"]]
        ELSE IF stack.info = "DumpThreadSkipped" THEN [items |-> <<>>, out |-> [kind |-> "Ok"]]
        ELSE [items |-> <<ThreadHeading(n, FALSE), StackLines(n, p.lines)>>, out |-> p.out]

\* the block print is about to write
Block ==
    CASE at.pc = "start" -> [items |-> <<[kind |-> "heading"]>>, out |-> [kind |-> "Ok"]]
      [] at.pc = "requesting" -> RequestingBlock(state)
      [] at.pc = "loop" /\ at.i < Len(state.threads) -> LoopBlock(state, at.i)
      [] at.pc = "loop" /\ at.i >= Len(state.threads) ->
            [items |-> <<[kind |-> "modules"]>>, out |-> [kind |-> "Ok"]]
      [] OTHER -> [items |-> <<>>, out |-> [kind |-> "Ok"]]

\* the block is written; a panic inside it ends print
Write(next) ==
    LET block == Block
    IN  /\ written' = written \o block.items
        /\ at' = IF block.out = Panic THEN [at EXCEPT !.pc = "panic"] ELSE next
        /\ UNCHANGED state

PrintHeading ==
    /\ at.pc = "start"
    /\ Write([pc |-> "requesting", i |-> 0])

PrintRequesting ==
    /\ at.pc = "requesting"
    /\ Write([pc |-> "loop", i |-> 0])

\* a turn of the loop that writes a thread
PrintThread ==
    /\ at.pc = "loop"
    /\ at.i < Len(state.threads)
    /\ Block.items # <<>>
    /\ Write([pc |-> "loop", i |-> at.i + 1])

\* a turn of the loop that ends in `continue`
PrintContinue ==
    /\ at.pc = "loop"
    /\ at.i < Len(state.threads)
    /\ Block.items = <<>>
    /\ Write([pc |-> "loop", i |-> at.i + 1])

PrintModules ==
    /\ at.pc = "loop"
    /\ at.i >= Len(state.threads)
    /\ Write([pc |-> "done", i |-> at.i])

\* a write of the block returns an io::Error and `?` returns it: the items
\* of the block before it were written
WriteFails ==
    /\ at.pc \in {"start", "requesting", "loop"}
    /\ LET block == Block
       IN  \E n \in 0..(Len(block.items) - 1) :
                written' = written \o SubSeq(block.items, 1, n)
    /\ at' = [at EXCEPT !.pc = "err"]
    /\ UNCHANGED state

\* the frames of the threads that are printed
PrintedFrames ==
    << from_context(FrameContexts[1], "Context"),
       from_context(FrameContexts[2], "CallFrameInfo"),
       from_context(FrameContexts[3], "Scan") >>
PrintedStacks ==
    {with_info(info) : info \in CallStackInfo}
        \cup {CallStack(SubSeq(PrintedFrames, 1, n), info) :
                n \in 1..Len(PrintedFrames), info \in {"Ok", "DumpThreadSkipped"}}

InitPrint ==
    /\ \E threads \in SeqsUpTo(PrintedStacks, MaxThreads) :
       \E requesting_thread \in {None} \cup {Some(n) : n \in 0..MaxThreads} :
            state = ProcessState("X86", None, requesting_thread, threads)
    /\ written = <<>>
    /\ at = [pc |-> "start", i |-> 0]
    /\ RangeIdle
    /\ ReadIdle
    /\ CtxIdle
    /\ FrameIdle
    /\ DumpIdle

NextPrint ==
    \/ PrintHeading /\ UNCHANGED <<rangeVars, readVars, ctxVars, frameVars, dumpVars>>
    \/ PrintRequesting /\ UNCHANGED <<rangeVars, readVars, ctxVars, frameVars, dumpVars>>
    \/ PrintThread /\ UNCHANGED <<rangeVars, readVars, ctxVars, frameVars, dumpVars>>
    \/ PrintContinue /\ UNCHANGED <<rangeVars, readVars, ctxVars, frameVars, dumpVars>>
    \/ PrintModules /\ UNCHANGED <<rangeVars, readVars, ctxVars, frameVars, dumpVars>>
    \/ WriteFails /\ UNCHANGED <<rangeVars, readVars, ctxVars, frameVars, dumpVars>>

SpecPrint == InitPrint /\ [][NextPrint]_vars
(***************************************************************************)
(* ProcessState::print_json: the serde_json value it builds, objects as    *)
(* records and arrays as sequences, null as None.                          *)
(***************************************************************************)
\* FrameTrust::json_name
json_name(trust) ==
    CASE trust = "Context" -> "context"
      [] trust = "PreWalked" -> "prewalked"
      [] trust = "CallFrameInfo" -> "cfi"
      [] trust = "CfiScan" -> "cfi_scan"
      [] trust = "FramePointer" -> "frame_pointer"
      [] trust = "Scan" -> "scan"
      [] trust = "None" -> "non"

\* ProcessState::json_hex: format!("0x{:08x}", val) or format!("0x{:016x}", val)
json_hex(s, val) ==
    IF s.cpu \in {"X86", "Ppc", "Sparc", "Arm"}
    THEN <<"0", "x">> \o LowerHex(val, 8)
    ELSE <<"0", "x">> \o LowerHex(val, 16)

\* u64 subtraction, digit by digit with a borrow; with overflow checks an
\* overflow panics, without them the difference wraps
RECURSIVE BorrowFrom(_, _, _)
BorrowFrom(a, b, k) ==
    IF k = Len(a) THEN 0
    ELSE IF a[k + 1] - b[k + 1] - BorrowFrom(a, b, k + 1) < 0 THEN 1 ELSE 0
Sub(a, b, overflow_checks) ==
    IF overflow_checks /\ BorrowFrom(a, b, 0) = 1 THEN Panic
    ELSE Val([k \in 1..Len(a) |-> (a[k] - b[k] - BorrowFrom(a, b, k) + 16) % 16])

\* json_registers: the object that maps each valid general purpose
\* register of the context to its formatted value
json_registers(c) ==
    LET registers == ValidRegisters(c)
        at_reg(reg) == CHOOSE k \in 1..Len(registers.v) : registers.v[k].reg = reg
    IN  IF registers = Panic THEN Panic
        ELSE Val([reg \in {registers.v[k].reg : k \in 1..Len(registers.v)} |->
                    registers.v[at_reg(reg)].reg_val.s])

\* the entry of one frame in "frames"; no frame of the model has a module
FrameJson(s, idx, sf, overflow_checks) ==
    LET function_offset ==
            IF sf.function_base = None THEN Val(None)
            ELSE LET diff == Sub(sf.instruction, sf.function_base.v, overflow_checks)
                 IN  IF diff = Panic THEN Panic ELSE Val(Some(json_hex(s, diff.v)))
    IN  IF function_offset = Panic THEN Panic
        ELSE Val([frame |-> idx,
                  module |-> None,
                  function |-> sf.function_name,
                  file |-> sf.source_file_name,
                  line |-> sf.source_line,
                  offset |-> json_hex(s, sf.instruction),
                  module_offset |-> None,
                  function_offset |-> function_offset.v,
                  missing_symbols |-> sf.function_name = None,
                  trust |-> json_name(sf.trust)])

\* the entry of one thread in "threads"
ThreadJson(s, thread, overflow_checks) ==
    LET frames == [k \in 1..Len(thread.frames) |->
                        FrameJson(s, k - 1, thread.frames[k], overflow_checks)]
    IN  IF \E k \in 1..Len(frames) : frames[k] = Panic THEN Panic
        ELSE Val([frame_count |-> Len(thread.frames),
                  frames_truncated |-> FALSE,
                  total_frames |-> Len(thread.frames),
                  last_error_value |-> None,
                  thread_name |-> None,
                  frames |-> [k \in 1..Len(frames) |-> frames[k].v]])

\* the json!({...}) value before the crashing thread is added
Output(s, overflow_checks) ==
    LET threads == [k \in 1..Len(s.threads) |-> ThreadJson(s, s.threads[k], overflow_checks)]
    IN  IF \E k \in 1..Len(threads) : threads[k] = Panic THEN Panic
        ELSE Val([status |-> "OK",
                  system_info |-> [cpu_arch |-> s.cpu],
                  crash_info |->
                      [type |-> "TODO",
                       address |-> IF s.crash_address = None THEN None
                                   ELSE Some(json_hex(s, s.crash_address.v)),
                       crashing_thread |-> s.requesting_thread],
                  main_module |-> 0,
                  modules_contains_cert_info |-> FALSE,
                  modules |-> <<>>,
                  thread_count |-> Len(s.threads),
                  threads |-> [k \in 1..Len(threads) |-> threads[k].v],
                  unloaded_modules |-> <<>>,
                  sensitive |-> [exploitability |-> "TODO"]])

\* the block `if let Some(requesting_thread) = self.requesting_thread`:
\* threads[requesting_thread] and frames[0] panic out of bounds
WithCrashingThread(s, output) ==
    LET n == s.requesting_thread.v
        registers == json_registers(s.threads[n + 1].frames[1].context)
        thread == output.threads[n + 1]
        first == [registers |-> registers.v] @@ thread.frames[1]
        frames == [thread.frames EXCEPT ![1] = first]
        thread_obj == [thread_index |-> n] @@ [thread EXCEPT !.frames = frames]
    IN  IF n >= Len(s.threads) THEN Panic
        ELSE IF s.threads[n + 1].frames = <<>> THEN Panic
        ELSE IF registers = Panic THEN Panic
        ELSE Val([crashing_thread |-> thread_obj] @@ output)

\* print_json: Ok(()) with the value written, a panic, or the error of the
\* writer
print_json(s, overflow_checks, write_ok) ==
    LET output == Output(s, overflow_checks)
        whole == IF s.requesting_thread = None THEN output
                 ELSE WithCrashingThread(s, output.v)
    IN  IF output = Panic THEN Panic
        ELSE IF whole = Panic THEN Panic
        ELSE IF ~write_ok THEN [kind |-> "Err"]
        ELSE [kind |-> "Ok", json |-> whole.v]

PrintJson ==
    /\ state # NoState
    /\ ret = NoRet
    /\ \E pretty \in BOOLEAN, overflow_checks \in BOOLEAN, write_ok \in BOOLEAN :
            ret' = [op |-> "print_json", pretty |-> pretty,
                    out |-> print_json(state, overflow_checks, write_ok)]
    /\ UNCHANGED <<ctx, calls, state, written, at>>

\* the addresses: zero, two below 2^32, 2^32, two above it, the largest
Addresses ==
    {Pal64[1], as_u64(Pal32[2]), as_u64(Pal32[3]),
     <<0, 0, 0, 0, 0, 0, 0, 1, 0, 0, 0, 0, 0, 0, 0, 0>>, Pal64[2], Pal64[3]}

\* the frames of the threads that are written as JSON: one of each trust,
\* the last one symbolized
JsonFrames ==
    << from_context(FrameContexts[1], "Context"),
       from_context(FrameContexts[2], "PreWalked"),
       from_context(FrameContexts[2], "CallFrameInfo"),
       from_context(FrameContexts[1], "CfiScan"),
       from_context(FrameContexts[3], "FramePointer"),
       from_context(FrameContexts[1], "None"),
       set_function(from_context(FrameContexts[2], "Scan"), "main", Pal64[3], Pal32[1]) >>
JsonStacks ==
    {with_info("MissingContext"),
     CallStack(SubSeq(JsonFrames, 1, 4), "Ok"),
     CallStack(<<JsonFrames[5]>>, "Ok"),
     CallStack(<<JsonFrames[6], JsonFrames[7]>>, "MissingMemory")}

InitJson ==
    /\ \E cpu \in Cpus, crash_address \in {None} \cup {Some(a) : a \in Addresses} :
       \E threads \in SeqsUpTo(JsonStacks, MaxThreads) :
       \E requesting_thread \in {None} \cup {Some(n) : n \in 0..MaxThreads} :
            state = ProcessState(cpu, crash_address, requesting_thread, threads)
    /\ written = <<>>
    /\ at = [pc |-> "none", i |-> 0]
    /\ RangeIdle
    /\ ReadIdle
    /\ CtxIdle
    /\ FrameIdle
    /\ DumpIdle

NextJson == PrintJson /\ UNCHANGED <<rangeVars, readVars, frameVars, dumpVars>>

SpecJson == InitJson /\ [][NextJson]_vars
Returned == result # NoResult
SizeDispatched == {ContextSize("Amd64"), ContextSize("Ppc64"), ContextSize("OldArm64")}
FlagDispatched == {"X86", "Ppc", "Sparc", "Arm", "Arm64", "Mips"}

(***************************************************************************)
(* Helpers for stating properties of the range map.                        *)
(***************************************************************************)
Covers(r, a) == r.start <= a /\ a <= r.end
Done == pc = "done"

\* addresses the sequence s maps to value v
CoveredBy(s, v) == {a \in Addr : \E i \in 1..Len(s) : s[i].val = v /\ Covers(s[i].range, a)}

\* entry e lies inside an entry of s that carries e's value
Represented(s, e) ==
    \E i \in 1..Len(s) :
        /\ s[i].val = e.val
        /\ s[i].range.start <= e.range.start
        /\ e.range.end <= s[i].range.end

\* the entries of s that lie in no entry of out carrying their value
Dropped(s, out) == {i \in 1..Len(s) : ~Represented(out, s[i])}

\* the entries of s whose range is r, and those whose start is a
WithRange(s, r) == LET Test(e) == e.range = r IN SelectSeq(s, Test)
WithStart(s, a) == LET Test(e) == e.range.start = a IN SelectSeq(s, Test)

\* sorted is orig put in ascending order of (start, end), entries with an
\* identical range in the order they have in orig
StableByRange(orig, sorted) ==
    /\ Len(sorted) = Len(orig)
    /\ \A i, j \in 1..Len(sorted) : i < j =>
            /\ sorted[i].range.start <= sorted[j].range.start
            /\ (sorted[i].range.start = sorted[j].range.start
                    => sorted[i].range.end <= sorted[j].range.end)
    /\ \A r \in Range : WithRange(sorted, r) = WithRange(orig, r)

\* sorted is orig put in ascending order of start, entries with an equal
\* start in the order they have in orig
StableByStart(orig, sorted) ==
    /\ Len(sorted) = Len(orig)
    /\ \A i, j \in 1..Len(sorted) : i < j =>
            sorted[i].range.start <= sorted[j].range.start
    /\ \A a \in Addr : WithStart(sorted, a) = WithStart(orig, a)

\* two entries with the same start and different values
SameStartPair ==
    /\ Len(items) = 2
    /\ items[1].range.start = items[2].range.start
    /\ items[1].val # items[2].val

\* the loop is about to look at an entry while an entry has been accepted
Scanning == InLoop /\ vec # <<>>

(***************************************************************************)
(* C1: the vector handed to the range map is sorted by start and its       *)
(* entries are disjoint: adjacent entries a, b satisfy a.end < b.start, so *)
(* every address lies in at most one entry.                                *)
(***************************************************************************)
C1_SortedDisjoint ==
    /\ \A i \in 1..Len(vec) : vec[i].range.start <= vec[i].range.end
    /\ \A i \in 1..(Len(vec) - 1) : vec[i].range.end < vec[i + 1].range.start
    /\ \A a \in Addr : Cardinality({i \in 1..Len(vec) : Covers(vec[i].range, a)}) <= 1

\* a finished run that kept two entries and dropped a third that touched one
C1_Witness ==
    /\ Done
    /\ Len(vec) = 2
    /\ Len(warnings) = 1
    /\ warnings[1].range.start = warnings[1].last_range.end

(***************************************************************************)
(* C2: when the next entry starts at or before the end of the last         *)
(* accepted entry and carries a different value, it is omitted, the last   *)
(* accepted entry stays as it is and exactly one warning is emitted; no    *)
(* other step emits a warning, so at the end the number of warnings is the *)
(* number of entries dropped for conflict.                                 *)
(***************************************************************************)
C2_ConflictDrops ==
    [][ /\ (Scanning /\ input[pos].range.start <= Last(vec).range.end
                     /\ input[pos].val # Last(vec).val)
            => /\ vec' = vec
               /\ pos' = pos + 1
               /\ Len(warnings') = Len(warnings) + 1
               /\ Last(warnings').range = input[pos].range
               /\ Last(warnings').val = input[pos].val
               /\ Last(warnings').last_range = Last(vec).range
               /\ Last(warnings').last_val = Last(vec).val
        /\ ~(Scanning /\ input[pos].range.start <= Last(vec).range.end
                      /\ input[pos].val # Last(vec).val)
            => warnings' = warnings
        /\ pc' = "done"
            => Len(warnings') = Cardinality(Dropped(input', vec')) ]_vars

\* scenario S4 scaled down: B overlaps A and is dropped with one warning
C2_Witness ==
    /\ Done
    /\ items = << [range |-> [start |-> 0, end |-> 0], val |-> 1],
                  [range |-> [start |-> 0, end |-> 1], val |-> 2],
                  [range |-> [start |-> 2, end |-> 2], val |-> 1] >>
    /\ vec = << [range |-> [start |-> 0, end |-> 0], val |-> 1],
                [range |-> [start |-> 2, end |-> 2], val |-> 1] >>
    /\ Len(warnings) = 1

(***************************************************************************)
(* C3: when the next entry starts at or before last.end + 1 and carries    *)
(* the value of the last accepted entry, nothing is appended and the last  *)
(* entry's end becomes max(last.end, next.end), its start and value stay;  *)
(* two contiguous same-value ranges end up as one entry.                   *)
(***************************************************************************)
C3_ExtendMerges ==
    [][ /\ (Scanning /\ input[pos].range.start <= Last(vec).range.end + 1
                     /\ input[pos].val = Last(vec).val)
            => /\ Len(vec') = Len(vec)
               /\ SubSeq(vec', 1, Len(vec) - 1) = SubSeq(vec, 1, Len(vec) - 1)
               /\ Last(vec').range.start = Last(vec).range.start
               /\ Last(vec').val = Last(vec).val
               /\ Last(vec').range.end =
                    Max(Last(vec).range.end, input[pos].range.end)
               /\ warnings' = warnings
        /\ (pc' = "done"
            /\ items = << [range |-> [start |-> 0, end |-> 0], val |-> 1],
                          [range |-> [start |-> 1, end |-> 2], val |-> 1] >>)
            => vec' = << [range |-> [start |-> 0, end |-> 2], val |-> 1] >> ]_vars

\* scenario S5 scaled down: [0,0] and [1,2] with one value give [0,2]
C3_Witness ==
    /\ Done
    /\ items = << [range |-> [start |-> 0, end |-> 0], val |-> 1],
                  [range |-> [start |-> 1, end |-> 2], val |-> 1] >>
    /\ vec = << [range |-> [start |-> 0, end |-> 2], val |-> 1] >>

(***************************************************************************)
(* C4 as stated: the entries are scanned in ascending order of start,      *)
(* entries with equal start in input order; of two entries with the same   *)
(* start and different values the first of the input is the one kept.      *)
(***************************************************************************)
C4_StableByStart ==
    /\ pc # "start" => StableByStart(items, input)
    /\ (Done /\ SameStartPair) => vec = <<items[1]>>

(***************************************************************************)
(* C4 amended: the entries are scanned in ascending order of the whole     *)
(* range (start, then end), entries with equal range in input order; when  *)
(* the input is two entries with the same start and different values, the  *)
(* one with the smaller end is kept (the first of the input when the ends  *)
(* are equal too) and the other is dropped.                                *)
(***************************************************************************)
C4_StableByRange ==
    /\ pc # "start" => StableByRange(items, input)
    /\ (Done /\ SameStartPair) =>
          /\ vec = << IF items[2].range.end < items[1].range.end
                      THEN items[2] ELSE items[1] >>
          /\ Len(warnings) = 1

\* the second entry of the input has the smaller end and is the one kept
C4_Witness ==
    /\ Done
    /\ SameStartPair
    /\ items[2].range.end < items[1].range.end
    /\ vec = <<items[2]>>

(***************************************************************************)
(* C5: when any two input ranges that share an address carry the same      *)
(* value, nothing is dropped, no warning is emitted, and the output covers *)
(* exactly the union of the input ranges, each address with the value of   *)
(* the inputs covering it.                                                 *)
(***************************************************************************)
Compatible(s) ==
    \A i, j \in 1..Len(s) :
        (\E a \in Addr : Covers(s[i].range, a) /\ Covers(s[j].range, a))
            => s[i].val = s[j].val

C5_CoversUnion ==
    (Done /\ Compatible(items)) =>
        /\ warnings = <<>>
        /\ Dropped(items, vec) = {}
        /\ \A v \in Values : CoveredBy(vec, v) = CoveredBy(items, v)

\* compatible input: two overlapping ranges of one value, supplied out of
\* order, and a range of another value
C5_Witness ==
    /\ Done
    /\ Compatible(items)
    /\ Len(items) = 3
    /\ Len(vec) = 2
    /\ items[1].range.start > items[2].range.start
    /\ Covers(items[2].range, items[1].range.start)
    /\ items[3].val # items[1].val

(***************************************************************************)
(* C6: when the last accepted entry ends at the largest address, last.end  *)
(* + 1 saturates: every later entry is merged (equal value) or dropped     *)
(* (different value), none is appended.                                    *)
(***************************************************************************)
C6_SaturatesAtMax ==
    [][ (Scanning /\ Last(vec).range.end = U64Max)
        => /\ vec' = vec
           /\ IF input[pos].val = Last(vec).val
              THEN warnings' = warnings
              ELSE Len(warnings') = Len(warnings) + 1 ]_vars

\* the last entry ends at the largest address and a same-value entry that
\* starts above 0 has been merged into it
C6_Witness ==
    /\ Done
    /\ Len(vec) = 1
    /\ vec[1].range.end = U64Max
    /\ Len(input) >= 2
    /\ input[2].range.start > 0
    /\ input[1].range.end = U64Max
    /\ input[2].val = input[1].val

(***************************************************************************)
(* C7: a blob whose length is the size of the AMD64 (PPC64, ARM64-old)     *)
(* record and whose context_flags field inside that record has the CPU     *)
(* bits of AMD64 (PPC64, ARM64-old) decodes to the Amd64 (Ppc64, OldArm64) *)
(* variant; the size tests come before the flag-word dispatch, so this is  *)
(* so whatever the first 32-bit word would select.                         *)
(***************************************************************************)
C7_SizeDispatch ==
    Returned =>
        \A v \in {"Amd64", "Ppc64", "OldArm64"} :
            (/\ bytes.len = ContextSize(v)
             /\ ContextFlagsField(v, bytes, endian) \cap CpuMask = FlagsCpuOf(v))
                => /\ result.kind = "Ok"
                   /\ result.raw = v
                   /\ ctxType = v
                   /\ offset = bytes.len

\* an ARM64-old sized blob whose first word carries X86 flags and whose
\* context_flags field carries ARM64-old ones decodes to OldArm64
C7_Witness ==
    /\ Returned
    /\ bytes.len = ContextSize("OldArm64")
    /\ bytes.w0 \cap CpuMask = CONTEXT_X86
    /\ result.kind = "Ok"
    /\ result.raw = "OldArm64"

(***************************************************************************)
(* C8: for a blob whose length is none of the three special sizes (and     *)
(* that holds a first word), the CPU bits of the first 32-bit word select  *)
(* the decoder: X86, PPC, SPARC, ARM, ARM64 and MIPS their own variant,    *)
(* every other value - AMD64, PPC64, ARM64-old, ARM-old included - gives   *)
(* UnknownCpuContext.                                                      *)
(***************************************************************************)
C8_FlagDispatch ==
    (Returned /\ bytes.len \notin SizeDispatched /\ bytes.len >= 4) =>
        LET cpu == bytes.w0 \cap CpuMask
        IN  /\ \A v \in FlagDispatched :
                cpu = FlagsCpuOf(v) =>
                    /\ ctxType = v
                    /\ result \in {from_raw(v, bytes.w0), Err("ReadFailure")}
                    /\ bytes.len >= ContextSize(v) => result = from_raw(v, bytes.w0)
            /\ (\A v \in FlagDispatched : cpu # FlagsCpuOf(v)) =>
                    /\ result = Err("UnknownCpuContext")
                    /\ ctxType = "none"

\* AMD64 flags in a blob that is not of the AMD64 size: UnknownCpuContext
C8_Witness ==
    /\ Returned
    /\ bytes.len = ContextSize("Amd64") + Slack
    /\ bytes.w0 \cap CpuMask = CONTEXT_AMD64
    /\ result = Err("UnknownCpuContext")

(***************************************************************************)
(* C9: a fully readable blob whose context flags identify no supported     *)
(* architecture is reported as UnknownCpuContext, not ReadFailure,         *)
(* whatever its length - also when the length is the AMD64, PPC64 or       *)
(* ARM64-old record size and the context_flags field of that record has    *)
(* other CPU bits than that architecture's.                                *)
(***************************************************************************)
C9_UnknownNotReadFailure ==
    Returned =>
        /\ (/\ bytes.len \notin SizeDispatched
            /\ bytes.len >= 4
            /\ \A v \in FlagDispatched : bytes.w0 \cap CpuMask # FlagsCpuOf(v))
                => result = Err("UnknownCpuContext")
        /\ \A v \in {"Amd64", "Ppc64", "OldArm64"} :
            (/\ bytes.len = ContextSize(v)
             /\ ContextFlagsField(v, bytes, endian) \cap CpuMask # FlagsCpuOf(v))
                => result = Err("UnknownCpuContext")

(***************************************************************************)
(* C10: the decoder returns ReadFailure and no context when the blob is    *)
(* shorter than the 4-byte flag word or shorter than the record of the     *)
(* architecture its flags select; nothing outside the blob is read.        *)
(***************************************************************************)
C10_ShortBlobFails ==
    Returned =>
        /\ bytes.len < 4 => result = Err("ReadFailure")
        /\ \A v \in FlagDispatched :
            (/\ bytes.len \notin SizeDispatched
             /\ bytes.len >= 4
             /\ bytes.w0 \cap CpuMask = FlagsCpuOf(v)
             /\ bytes.len < ContextSize(v))
                => result = Err("ReadFailure")
        /\ result.kind = "Ok" => ContextSize(result.raw) <= bytes.len
        /\ offset <= bytes.len

\* an X86 blob one byte short of the record
C10_Witness ==
    /\ Returned
    /\ bytes.w0 \cap CpuMask = CONTEXT_X86
    /\ bytes.len = ContextSize("X86") - Slack
    /\ bytes.len >= 4
    /\ result = Err("ReadFailure")
    /\ offset = 0

(***************************************************************************)
(* C11: every context returned by MinidumpContext::read, on the size path  *)
(* and on the flag path, and every context made by from_raw, for each      *)
(* variant, has valid = All.                                               *)
(***************************************************************************)
C11_ValidAll ==
    /\ result.kind = "Ok" => result.valid = ValidityAll
    /\ ctx.kind = "Ok" => ctx.valid = ValidityAll

\* read has returned a context on the size path and from_raw has made one
C11_Witness ==
    /\ result.kind = "Ok"
    /\ bytes.len \in SizeDispatched
    /\ ctx.kind = "Ok"
    /\ ctx.raw.variant = "Mips"

(***************************************************************************)
(* Helpers for stating properties of the register accessors.               *)
(***************************************************************************)
\* the names general_purpose_registers lists for a variant
Listed(v) ==
    CASE v = "X86" -> Elems(X86_REGS)
      [] v = "Amd64" -> Elems(X86_64_REGS)
      [] v \in {"Arm64", "OldArm64"} -> Elems(ARM64_REGS)
      [] OTHER -> {}

\* the last call on the context
LastCall(op) == ctx.kind = "Ok" /\ ret.op = op

(***************************************************************************)
(* C12: get_register(name, valid) returns none exactly when valid is       *)
(* Some(set) and name is not in set; otherwise it returns what             *)
(* get_register_always(name) returns, so with valid = All it gives the     *)
(* value of get_register_always(name) for every listed register.           *)
(***************************************************************************)
C12_GetRegister ==
    LastCall("get_register") =>
        LET always == get_register_always(ctx.raw, ret.reg)
        IN  /\ ret.out = None <=> (ret.valid.kind = "Some" /\ ret.reg \notin ret.valid.which)
            /\ ret.out # None =>
                    /\ always = Panic => ret.out = Panic
                    /\ always # Panic => ret.out = [kind |-> "Some", v |-> always.v]
            /\ (ret.valid = ValidityAll /\ ret.reg \in Listed(ctx.raw.variant)) =>
                    /\ always.kind = "val"
                    /\ ret.out = [kind |-> "Some", v |-> always.v]

\* a listed register outside the set of valid ones was asked for
C12_Witness ==
    /\ LastCall("get_register")
    /\ ctx.raw.variant = "X86"
    /\ ret.reg = "esp"
    /\ ret.valid.kind = "Some"
    /\ ret.valid.which # {}
    /\ ret.out = None

\* the register width in bytes the architectures are documented with
WordSizeBytes(v) == IF v = "X86" THEN 4 ELSE 8

\* "0x00007ff712345678"
RipExampleText ==
    <<"0", "x", "0", "0", "0", "0", "7", "f", "f", "7", "1", "2", "3", "4", "5", "6", "7", "8">>

(***************************************************************************)
(* C13: for every listed register of X86 (4-byte registers) and of AMD64,  *)
(* ARM64 and ARM64-old (8-byte registers) format_register(name) is "0x"    *)
(* followed by the lowercase hexadecimal digits of                         *)
(* get_register_always(name), zero-padded to 2 * word size digits: its     *)
(* length is 2 + 2 * word size, and rip = 0x7ff712345678 gives             *)
(* "0x00007ff712345678".                                                   *)
(***************************************************************************)
C13_FormatRegister ==
    (/\ LastCall("format_register")
     /\ ctx.raw.variant \in {"X86", "Amd64", "Arm64", "OldArm64"}
     /\ ret.reg \in Listed(ctx.raw.variant)) =>
        LET value == get_register_always(ctx.raw, ret.reg).v
            w == 2 * WordSizeBytes(ctx.raw.variant)
            padded == Zeros(w - Len(value)) \o value
        IN  /\ ret.out.kind = "String"
            /\ Len(ret.out.s) = 2 + w
            /\ ret.out.s[1] = "0"
            /\ ret.out.s[2] = "x"
            /\ Len(padded) = w
            /\ \A i \in 1..w : ret.out.s[2 + i] = HexDigits[padded[i] + 1]
            /\ (ret.reg = "rip" /\ value = <<0, 0, 0, 0, 7, 15, 15, 7, 1, 2, 3, 4, 5, 6, 7, 8>>)
                    => ret.out.s = RipExampleText

\* rip = 0x7ff712345678 has been formatted
C13_Witness ==
    /\ LastCall("format_register")
    /\ ctx.raw.variant = "Amd64"
    /\ ret.reg = "rip"
    /\ ctx.raw.rip = <<0, 0, 0, 0, 7, 15, 15, 7, 1, 2, 3, 4, 5, 6, 7, 8>>
    /\ ret.out = [kind |-> "String", s |-> RipExampleText]

(***************************************************************************)
(* C14: for each of the nine variants a context can hold,                  *)
(* general_purpose_registers() returns the architecture's name list and    *)
(* format_register(name) returns a formatted value for each listed name;   *)
(* neither call fails.                                                     *)
(***************************************************************************)
C14_UniformAccess ==
    /\ LastCall("general_purpose_registers") =>
            /\ ret.out.kind = "val"
            /\ Elems(ret.out.v) = Listed(ctx.raw.variant)
    /\ (LastCall("format_register") /\ ret.reg \in Listed(ctx.raw.variant)) =>
            ret.out.kind = "String"

\* the register alphabet of an architecture with register access
Alphabet(v) ==
    CASE v = "X86" -> Elems(X86_REGS)
      [] v = "Amd64" -> Elems(X86_64_REGS)
      [] v \in {"Arm64", "OldArm64"} -> Elems(ARM64_REGS) \cup {"fp", "sp"}
      [] OTHER -> {}

\* this step is a call of set_register
SetRegisterStep == calls' = calls + 1 /\ ret'.op = "set_register"

(***************************************************************************)
(* C15: set_register(name, value) returns none when name is not in the     *)
(* case-sensitive register alphabet of the architecture and then leaves    *)
(* every field of the context unchanged; it returns ok for every name of   *)
(* the alphabet.                                                           *)
(***************************************************************************)
C15_SetRegister ==
    [][SetRegisterStep =>
            /\ ret'.reg \notin Alphabet(ctx.raw.variant) =>
                    /\ ret'.out = None
                    /\ ctx' = ctx
            /\ ret'.reg \in Alphabet(ctx.raw.variant) => ret'.out = SomeUnit]_vars

\* set_register was called with a name that differs from a register name
\* in case only
C15_Witness ==
    /\ LastCall("set_register")
    /\ ctx.raw.variant = "X86"
    /\ ret.reg = "EIP"
    /\ ret.out = None

\* the 64-bit value with the digits of x in its low part and zeros above
ZeroExtended(x) == [i \in 1..16 |-> IF i <= 16 - Len(x) THEN 0 ELSE x[i - (16 - Len(x))]]
Below2Pow32(x) == Len(x) = 16 /\ \A i \in 1..8 : x[i] = 0

(***************************************************************************)
(* C16: get_instruction_pointer() and get_stack_pointer() return a value   *)
(* for each of the nine variants and every register content, and it is the *)
(* zero-extended 64-bit widening of the register: eip/esp for X86, rip/rsp *)
(* for AMD64, iregs[15]/iregs[13] for ARM, pc/iregs[31] for ARM64 and      *)
(* ARM64-old, epc and the stack-pointer slot for MIPS; for the 32-bit      *)
(* architectures the result is below 2^32.                                 *)
(***************************************************************************)
C16_PointersTotal ==
    /\ LastCall("get_instruction_pointer") =>
            /\ ret.out.kind = "val"
            /\ Len(ret.out.v) = 16
            /\ ctx.raw.variant = "X86" => ret.out.v = ZeroExtended(ctx.raw.eip)
            /\ ctx.raw.variant = "Amd64" => ret.out.v = ctx.raw.rip
            /\ ctx.raw.variant = "Arm" => ret.out.v = ZeroExtended(ctx.raw.iregs[15])
            /\ ctx.raw.variant \in {"Arm64", "OldArm64"} => ret.out.v = ctx.raw.pc
            /\ ctx.raw.variant = "Mips" => ret.out.v = ctx.raw.epc
            /\ ctx.raw.variant = "Ppc" => ret.out.v = ZeroExtended(ctx.raw.srr0)
            /\ ctx.raw.variant = "Ppc64" => ret.out.v = ctx.raw.srr0
            /\ ctx.raw.variant = "Sparc" => ret.out.v = ctx.raw.pc
            /\ ctx.raw.variant \in {"X86", "Arm", "Ppc"} => Below2Pow32(ret.out.v)
    /\ LastCall("get_stack_pointer") =>
            /\ ret.out.kind = "val"
            /\ Len(ret.out.v) = 16
            /\ ctx.raw.variant = "X86" => ret.out.v = ZeroExtended(ctx.raw.esp)
            /\ ctx.raw.variant = "Amd64" => ret.out.v = ctx.raw.rsp
            /\ ctx.raw.variant = "Arm" => ret.out.v = ZeroExtended(ctx.raw.iregs[13])
            /\ ctx.raw.variant \in {"Arm64", "OldArm64"} => ret.out.v = ctx.raw.iregs[31]
            /\ ctx.raw.variant = "Mips" => ret.out.v = ctx.raw.iregs[MipsStackPointer]
            /\ ctx.raw.variant = "Ppc" => ret.out.v = ZeroExtended(ctx.raw.gpr[PpcStackPointer])
            /\ ctx.raw.variant = "Ppc64" => ret.out.v = ctx.raw.gpr[Ppc64StackPointer]
            /\ ctx.raw.variant = "Sparc" => ret.out.v = ctx.raw.g_r[SparcStackPointer]
            /\ ctx.raw.variant \in {"X86", "Arm", "Ppc"} => Below2Pow32(ret.out.v)

\* the stack pointer of an ARM context whose iregs[13] has its top bit set
C16_Witness ==
    /\ LastCall("get_stack_pointer")
    /\ ctx.raw.variant = "Arm"
    /\ ctx.raw.iregs[13] = <<15, 15, 15, 15, 15, 15, 15, 15>>
    /\ ret.out = [kind |-> "val", v |-> <<0, 0, 0, 0, 0, 0, 0, 0, 15, 15, 15, 15, 15, 15, 15, 15>>]

(***************************************************************************)
(* C17: on a context with register access (X86, AMD64, ARM64, ARM64-old),  *)
(* after set_register(instruction_pointer_register_name(), v)              *)
(* get_instruction_pointer() returns v widened to 64 bits, after           *)
(* set_register(stack_pointer_register_name(), v) get_stack_pointer()      *)
(* returns v widened, and writing back the value the accessor already      *)
(* returns leaves the whole context unchanged.                             *)
(***************************************************************************)
C17_PointerRoundTrip ==
    [][SetRegisterStep =>
            /\ ret'.reg = instruction_pointer_register_name(ctx.raw) =>
                    /\ ret'.out = SomeUnit
                    /\ get_instruction_pointer(ctx') = ZeroExtended(ret'.val)
                    /\ get_instruction_pointer(ctx) = ZeroExtended(ret'.val) => ctx' = ctx
            /\ ret'.reg = stack_pointer_register_name(ctx.raw) =>
                    /\ ret'.out = SomeUnit
                    /\ get_stack_pointer(ctx') = ZeroExtended(ret'.val)
                    /\ get_stack_pointer(ctx) = ZeroExtended(ret'.val) => ctx' = ctx]_vars

\* the stack pointer of an ARM64 context was set through its register name
C17_Witness ==
    /\ LastCall("set_register")
    /\ ctx.raw.variant = "Arm64"
    /\ ret.reg = "sp"
    /\ ret.val = <<0, 0, 0, 0, 7, 15, 15, 7, 1, 2, 3, 4, 5, 6, 7, 8>>
    /\ ctx.raw # RegFile("Arm64", 0)
    /\ ctx.raw # RegFile("Arm64", 1)
    /\ ctx.raw # RegFile("Arm64", 2)
    /\ get_stack_pointer(ctx) = ret.val

IsArm64 == ctx.kind = "Ok" /\ ctx.raw.variant \in {"Arm64", "OldArm64"}

(***************************************************************************)
(* C18: on ARM64 and ARM64-old contexts fp and sp are aliases of x29 and   *)
(* x31: get_register_always gives the same value for an alias and for the  *)
(* register it names in every state, and set_register on an alias or on    *)
(* the aliased register changes that one register and no other.            *)
(***************************************************************************)
C18_Arm64Aliases ==
    /\ [](IsArm64 =>
            /\ get_register_always(ctx.raw, "fp") = get_register_always(ctx.raw, "x29")
            /\ get_register_always(ctx.raw, "fp") = [kind |-> "val", v |-> ctx.raw.iregs[29]]
            /\ get_register_always(ctx.raw, "sp") = get_register_always(ctx.raw, "x31")
            /\ get_register_always(ctx.raw, "sp") = [kind |-> "val", v |-> ctx.raw.iregs[31]])
    /\ [][(SetRegisterStep /\ IsArm64) =>
            /\ ret'.reg \in {"fp", "x29"} =>
                    ctx' = [ctx EXCEPT !.raw = [ctx.raw EXCEPT !.iregs[29] = ret'.val]]
            /\ ret'.reg \in {"sp", "x31"} =>
                    ctx' = [ctx EXCEPT !.raw = [ctx.raw EXCEPT !.iregs[31] = ret'.val]]]_vars

\* fp of an ARM64-old context was set to a value x29 did not hold before
C18_Witness ==
    /\ LastCall("set_register")
    /\ ctx.raw.variant = "OldArm64"
    /\ ret.reg = "fp"
    /\ ctx.raw.iregs[29] = ret.val
    /\ ctx.raw.iregs[29] # ctx.raw.iregs[26]
    /\ get_register_always(ctx.raw, "x29") = [kind |-> "val", v |-> ret.val]

(***************************************************************************)
(* Helpers for stating properties of a StackFrame.                         *)
(***************************************************************************)
FunctionGroup(f) == <<f.function_name, f.function_base, f.parameter_size>>
SourceGroup(f) == <<f.source_file_name, f.source_line, f.source_line_base>>
Opt(x) == [kind |-> "Some", v |-> x]
Absent == [kind |-> "None"]

(***************************************************************************)
(* C19: a StackFrame built by from_context(context, trust) has             *)
(* instruction = context.get_instruction_pointer() and no module, function *)
(* or source information; after any sequence of set_function and           *)
(* set_source_file calls get_instruction() and return_address() still      *)
(* return that instruction, set_function has changed only function_name,   *)
(* function_base and parameter_size, set_source_file only                  *)
(* source_file_name, source_line and source_line_base, and each group      *)
(* holds the arguments of the last call that set it.                       *)
(***************************************************************************)
C19_FrameEffects ==
    /\ [](frame.kind = "StackFrame" =>
            /\ frame.instruction = get_instruction_pointer(ctx)
            /\ frame.context = ctx
            /\ frame.module = Absent
            /\ ret.op \in {"get_instruction", "return_address"} =>
                    ret.out = [kind |-> "val", v |-> get_instruction_pointer(ctx)])
    /\ [][/\ ret'.op = "from_context" =>
                /\ frame'.trust = ret'.trust
                /\ FunctionGroup(frame') = <<Absent, Absent, Absent>>
                /\ SourceGroup(frame') = <<Absent, Absent, Absent>>
          /\ ret'.op = "set_function" =>
                /\ FunctionGroup(frame') =
                        <<Opt(ret'.name), Opt(ret'.base), Opt(ret'.parameter_size)>>
                /\ frame' = [frame EXCEPT !.function_name = frame'.function_name,
                                          !.function_base = frame'.function_base,
                                          !.parameter_size = frame'.parameter_size]
          /\ ret'.op = "set_source_file" =>
                /\ SourceGroup(frame') = <<Opt(ret'.file), Opt(ret'.line), Opt(ret'.base)>>
                /\ frame' = [frame EXCEPT !.source_file_name = frame'.source_file_name,
                                          !.source_line = frame'.source_line,
                                          !.source_line_base = frame'.source_line_base]
          /\ ret'.op \in {"get_instruction", "return_address"} => frame' = frame]_vars

\* the instruction is read back from a frame of an X86 context after its
\* function and its source file were set
C19_Witness ==
    /\ frame.kind = "StackFrame"
    /\ ctx.raw.variant = "X86"
    /\ frame.function_name = Opt("f")
    /\ frame.function_base = Opt(Pal64[2])
    /\ frame.source_file_name = Opt("b.c")
    /\ frame.source_line = Opt(Pal32[2])
    /\ ret.op = "get_instruction"
    /\ ret.out = [kind |-> "val", v |-> <<0, 0, 0, 0, 0, 0, 0, 0, 0, 0, 4, 0, 0, 10, 11, 12>>]

(***************************************************************************)
(* Helpers for stating properties of the stream directory.                 *)
(***************************************************************************)
\* the positions of the entries of kind k in the directory of the file
Occurrences(k) == {i \in 1..Len(file) : file[i].stream_type = k}
FirstOccurrence(k) == CHOOSE i \in Occurrences(k) : \A j \in Occurrences(k) : i <= j

(***************************************************************************)
(* C20: when the directory holds several entries of one stream kind,       *)
(* get_stream for that kind returns the entry that comes first in the      *)
(* directory, and all_streams() enumerates every entry, duplicates         *)
(* included, in directory order.                                           *)
(***************************************************************************)
C20_FirstOccurrence ==
    dump.kind = "Minidump" =>
        /\ (/\ ret.op = "get_stream"
            /\ Occurrences(ret.stream_type) # {}
            /\ file[FirstOccurrence(ret.stream_type)].location \notin truncated) =>
                ret.out = [kind |-> "Some", v |-> file[FirstOccurrence(ret.stream_type)]]
        /\ (ret.op = "get_stream" /\ ret.out.kind = "Some") =>
                ret.out.v = file[FirstOccurrence(ret.stream_type)]
        /\ ret.op = "all_streams" =>
                /\ Len(ret.out.v) = Len(file)
                /\ \A i \in 1..Len(file) : ret.out.v[i] = file[i]

\* get_stream on a directory with two different entries of the kind asked
\* for, and an entry of another kind before them
C20_Witness ==
    /\ dump.kind = "Minidump"
    /\ Len(file) = 3
    /\ file[1].stream_type = SystemInfoStream
    /\ file[2].stream_type = ThreadListStream
    /\ file[3].stream_type = ThreadListStream
    /\ file[2] # file[3]
    /\ ret.op = "get_stream"
    /\ ret.stream_type = ThreadListStream
    /\ ret.out = [kind |-> "Some", v |-> file[2]]

(***************************************************************************)
(* C22, as stated: read on a blob whose first word has the CPU bits of     *)
(* X86, PPC, SPARC, ARM, ARM64 or MIPS and whose length is at least the    *)
(* size of that record returns that variant, whatever the number and the   *)
(* content of the trailing bytes.                                          *)
(***************************************************************************)
C22_FlagVariantAnyTail ==
    Returned =>
        \A v \in FlagDispatched :
            (bytes.w0 \cap CpuMask = FlagsCpuOf(v) /\ bytes.len >= ContextSize(v))
                => (result.kind = "Ok" /\ result.raw = v)

(***************************************************************************)
(* C22, amended: the same, for a blob whose length is none of the sizes of *)
(* the AMD64, PPC64 and ARM64-old records; the context is decoded from the *)
(* leading bytes and the bytes after the record are not consumed.  At one  *)
(* of those three lengths the size decides and the first word is not       *)
(* looked at.                                                              *)
(***************************************************************************)
C22_FlagVariantOffSizePath ==
    Returned =>
        /\ \A v \in FlagDispatched :
            (/\ bytes.w0 \cap CpuMask = FlagsCpuOf(v)
             /\ bytes.len >= ContextSize(v)
             /\ bytes.len \notin SizeDispatched)
                => /\ result.kind = "Ok"
                   /\ result.raw = v
                   /\ result.context_flags = bytes.w0
                   /\ offset = ContextSize(v)
        /\ \A v \in FlagDispatched :
            (/\ bytes.w0 \cap CpuMask = FlagsCpuOf(v)
             /\ bytes.len \in SizeDispatched)
                => ~(result.kind = "Ok" /\ result.raw = v)

\* an ARM record followed by the bytes that make the blob as long as a
\* MIPS record
C22_Witness ==
    /\ Returned
    /\ bytes.w0 \cap CpuMask = CONTEXT_ARM
    /\ bytes.len = ContextSize("Mips")
    /\ result.kind = "Ok"
    /\ result.raw = "Arm"
    /\ offset = ContextSize("Arm")

\* what the bytes of the file give for kind k: the first entry of the kind,
\* unless there is none or its stream is truncated
Decoded(k) ==
    IF Occurrences(k) = {} THEN [kind |-> "Err", err |-> "StreamNotFound"]
    ELSE IF file[FirstOccurrence(k)].location \in truncated
         THEN [kind |-> "Err", err |-> "StreamReadFailure"]
         ELSE [kind |-> "Some", v |-> file[FirstOccurrence(k)]]

(***************************************************************************)
(* C21: after any sequence of get_stream calls on a Minidump, failed ones  *)
(* (stream absent or malformed) included, the buffer and the directory of  *)
(* the root are unchanged, and the result of get_stream(K) depends on K    *)
(* and the buffer only: a malformed stream fails on its own and every      *)
(* other present stream stays decodable.                                   *)
(***************************************************************************)
C21_FailuresAreLocal ==
    /\ [](dump.kind = "Minidump" =>
            /\ dump.directory = file
            /\ dump.data = truncated
            /\ dump.streams = IndexFirst(file, <<>>)
            /\ ret.op = "get_stream" => ret.out = Decoded(ret.stream_type))
    /\ [][ret'.op = "get_stream" =>
            /\ dump' = dump
            /\ file' = file
            /\ truncated' = truncated
            /\ ret'.out = Decoded(ret'.stream_type)]_vars

\* a present, intact stream is decoded by the call that follows a failed
\* get_stream on a truncated stream of the same file
C21_Witness ==
    /\ dump.kind = "Minidump"
    /\ Len(file) = 2
    /\ file[1].stream_type = ThreadListStream
    /\ file[1].location \in truncated
    /\ file[2].stream_type = ModuleListStream
    /\ file[2].location \notin truncated
    /\ ret.op = "get_stream"
    /\ ret.after_failure
    /\ ret.stream_type = ModuleListStream
    /\ ret.out = [kind |-> "Some", v |-> file[2]]

\* two names of the alphabet of an ARM64 context that name one slot
SameSlot(a, b) ==
    \/ a = b
    \/ {a, b} = {"fp", "x29"}
    \/ {a, b} = {"sp", "x31"}

(***************************************************************************)
(* C23: on X86, AMD64, ARM64 and ARM64-old contexts set_register(name, v)  *)
(* with a name of the alphabet makes get_register_always(name) return v    *)
(* and leaves the value of every other register of the alphabet (other     *)
(* than an alias of the same slot) and the context flags unchanged.        *)
(***************************************************************************)
C23_SetRegisterFrame ==
    [][(SetRegisterStep /\ ret'.reg \in Alphabet(ctx.raw.variant)) =>
            /\ get_register_always(ctx'.raw, ret'.reg) = [kind |-> "val", v |-> ret'.val]
            /\ \A other \in Alphabet(ctx.raw.variant) :
                    ~SameSlot(other, ret'.reg) =>
                        get_register_always(ctx'.raw, other)
                            = get_register_always(ctx.raw, other)
            /\ ctx'.raw.context_flags = ctx.raw.context_flags
            /\ ctx'.context_flags = ctx.context_flags
            /\ ctx'.raw.variant = ctx.raw.variant
            /\ ctx'.valid = ctx.valid]_vars

\* efl of an X86 context was set to a value it did not hold
C23_Witness ==
    /\ LastCall("set_register")
    /\ ctx.raw.variant = "X86"
    /\ ret.reg = "efl"
    /\ ret.out = SomeUnit
    /\ ctx.raw.eflags = ret.val
    /\ ctx.raw.eflags # ctx.raw.eax

(***************************************************************************)
(* C24: on every architecture with register access (X86, AMD64, ARM64,     *)
(* ARM64-old) every name that set_register accepts - in particular the     *)
(* names stack_pointer_register_name() and                                 *)
(* instruction_pointer_register_name() return - is accepted by             *)
(* memoize_register, which returns that same name, and is in the list      *)
(* general_purpose_registers() returns.                                    *)
(***************************************************************************)
C24_AcceptedNamesMemoized ==
    (/\ LastCall("memoize_register")
     /\ \E val \in RegisterValues(ctx.raw.variant) :
            set_register(ctx.raw, ret.reg, val).out = SomeUnit) =>
        /\ ret.out = [kind |-> "Some", v |-> ret.reg]
        /\ ret.reg \in Elems(general_purpose_registers(ctx).v)

(***************************************************************************)
(* C25: the output of into_rangemap_safe is sound with respect to its      *)
(* input: every address covered by an output entry with value v is covered *)
(* by at least one input range carrying value v, so the output covers no   *)
(* address that no input covers and maps no address to a value that no     *)
(* input gave it.                                                          *)
(***************************************************************************)
C25_OutputSound ==
    /\ \A i \in 1..Len(vec) : \A a \in Addr :
            Covers(vec[i].range, a) =>
                \E j \in 1..Len(items) :
                    /\ items[j].val = vec[i].val
                    /\ Covers(items[j].range, a)
    /\ \A i \in 1..Len(vec) : vec[i].range.start <= vec[i].range.end

\* three ranges of one value that leave address 1 uncovered: the output
\* keeps the gap
C25_Witness ==
    /\ Done
    /\ Len(items) = 3
    /\ \A j \in 1..3 : items[j].val = 1
    /\ vec = <<[range |-> [start |-> 0, end |-> 0], val |-> 1],
               [range |-> [start |-> 2, end |-> 2], val |-> 1]>>

(***************************************************************************)
(* Helpers for stating that the order of the input does not matter.        *)
(***************************************************************************)
\* the rearrangements of the sequence s
Rearranged(s) ==
    {[i \in 1..Len(s) |-> s[p[i]]] :
        p \in {q \in [1..Len(s) -> 1..Len(s)] : \A i, j \in 1..Len(s) : q[i] = q[j] => i = j}}

\* no two pairs have the identical range with different values
NoRangeTwice(s) ==
    \A i, j \in 1..Len(s) : s[i].range = s[j].range => s[i].val = s[j].val

(***************************************************************************)
(* C26: the output of into_rangemap_safe does not depend on the order in   *)
(* which the pairs are supplied: two permutations of one multiset of       *)
(* (range, value) pairs give the same output and the same number of        *)
(* warnings, provided no two pairs have the identical range with different *)
(* values.                                                                 *)
(***************************************************************************)
C26_OrderIndependent ==
    (Done /\ NoRangeTwice(items)) =>
        \A other \in Rearranged(items) :
            /\ into_rangemap_safe(other).vec = vec
            /\ Len(into_rangemap_safe(other).warnings) = Len(warnings)

\* two overlapping pairs with different values, supplied with the later
\* start first: a warning, and the pair with the lower start is kept
C26_Witness ==
    /\ Done
    /\ Len(items) = 2
    /\ items[1].range.start > items[2].range.start
    /\ items[1].val # items[2].val
    /\ Len(warnings) = 1
    /\ vec = <<items[2]>>

(***************************************************************************)
(* Helpers for the order in which print writes the call stacks.            *)
(***************************************************************************)
\* the thread numbers of the call stacks written so far, in order
WrittenStacks ==
    LET stacks == SelectSeq(written, LAMBDA item : item.kind = "CallStack")
    IN  [k \in 1..Len(stacks) |-> stacks[k].index]

\* the thread numbers in the order the claim gives: the requesting thread,
\* then the others by increasing number, without the skipped ones
StacksInOrder ==
    LET numbers == [k \in 1..Len(state.threads) |-> k - 1]
        others == SelectSeq(numbers,
                            LAMBDA n : /\ state.requesting_thread # Some(n)
                                       /\ state.threads[n + 1].info # "DumpThreadSkipped")
    IN  IF state.requesting_thread = None THEN others
        ELSE <<state.requesting_thread.v>> \o others

IsPrefix(s, t) == Len(s) <= Len(t) /\ s = SubSeq(t, 1, Len(s))

(***************************************************************************)
(* C27: ProcessState::print writes each thread's call stack at most once:  *)
(* first the requesting thread, if there is one, then the remaining        *)
(* threads in increasing index order, skipping the requesting thread and   *)
(* every thread whose info is DumpThreadSkipped.  At every moment the call *)
(* stacks written are the beginning of that order, and all of it once      *)
(* print has returned Ok.                                                  *)
(***************************************************************************)
C27_PrintOrder ==
    state # NoState =>
        /\ IsPrefix(WrittenStacks, StacksInOrder)
        /\ \A j, k \in 1..Len(WrittenStacks) : WrittenStacks[j] = WrittenStacks[k] => j = k
        /\ at.pc = "done" => WrittenStacks = StacksInOrder

\* print has returned Ok for two threads of which the second requested the
\* dump: its call stack was written before that of the first
C27_Witness ==
    /\ at.pc = "done"
    /\ Len(state.threads) = 2
    /\ state.requesting_thread = Some(1)
    /\ state.threads[1].info = "MissingMemory"
    /\ WrittenStacks = <<1, 0>>

(***************************************************************************)
(* Helpers for the value print_json writes.                                *)
(***************************************************************************)
\* print_json has returned Ok(()): the value it wrote
JsonWritten == ret.op = "print_json" /\ ret.out.kind = "Ok"

\* print_json was called and the writer took what it was given
JsonCalled == ret.op = "print_json" /\ ret.out.kind # "Err"

\* the requesting thread is thread number n of the state
Requesting(n) == state.requesting_thread = Some(n) /\ n < Len(state.threads)

\* every frame of the state can be written: a function starts at or below
\* the instruction of its frame
OffsetsInRange ==
    \A t \in 1..Len(state.threads) : ThreadJson(state, state.threads[t], TRUE) # Panic

\* the first frame of thread number n, if it has one, has a context with a
\* list of general purpose registers
FirstFrameHasRegisters(n) ==
    state.threads[n + 1].frames # <<>> =>
        json_registers(state.threads[n + 1].frames[1].context) # Panic

\* object `with` is object `entry` and the field `key` with the value `val`
Added(with, entry, key, val) ==
    /\ DOMAIN with = DOMAIN entry \cup {key}
    /\ key \notin DOMAIN entry
    /\ with[key] = val
    /\ \A k \in DOMAIN entry : with[k] = entry[k]

(***************************************************************************)
(* C28: print_json, for every ProcessState whose requesting_thread is      *)
(* Some(i) with i a valid thread index and whatever the number of frames   *)
(* of thread i, emits a top-level crashing_thread object equal to the JSON *)
(* entry of threads[i] with thread_index = i added and a registers field   *)
(* added to its first frame; when requesting_thread is None it emits no    *)
(* crashing_thread field.  (Stated for states whose frames can be written  *)
(* and whose requesting thread's first frame has a register list.)         *)
(***************************************************************************)
C28_CrashingThread ==
    (JsonCalled /\ OffsetsInRange) =>
        /\ state.requesting_thread = None =>
                JsonWritten /\ "crashing_thread" \notin DOMAIN ret.out.json
        /\ \A n \in 0..(Len(state.threads) - 1) :
                (Requesting(n) /\ FirstFrameHasRegisters(n)) =>
                    /\ JsonWritten
                    /\ "crashing_thread" \in DOMAIN ret.out.json
                    /\ LET entry == ret.out.json.threads[n + 1]
                           crashing == ret.out.json.crashing_thread
                           first == [registers |->
                                        json_registers(state.threads[n + 1].frames[1].context).v]
                                    @@ entry.frames[1]
                       IN  Added(crashing, [entry EXCEPT !.frames = crashing.frames],
                                 "thread_index", n)
                           /\ Len(crashing.frames) = Len(entry.frames)
                           /\ \A k \in 2..Len(entry.frames) : crashing.frames[k] = entry.frames[k]
                           /\ entry.frames # <<>> => crashing.frames[1] = first

(***************************************************************************)
(* C29: the "trust" field that print_json writes for a frame is, for every *)
(* FrameTrust value, one of the strings none, scan, cfi_scan,              *)
(* frame_pointer, cfi, context, prewalked, and distinct FrameTrust values  *)
(* give distinct strings.                                                  *)
(***************************************************************************)
C29_TrustNames ==
    JsonWritten =>
        LET frames == {<<t, k>> \in (1..Len(state.threads)) \X (1..4) :
                            k <= Len(state.threads[t].frames)}
            given(p) == state.threads[p[1]].frames[p[2]].trust
            name(p) == ret.out.json.threads[p[1]].frames[p[2]].trust
        IN  /\ \A p \in frames :
                    name(p) \in {"none", "scan", "cfi_scan", "frame_pointer", "cfi", "context",
                                 "prewalked"}
            /\ \A p, q \in frames : given(p) # given(q) => name(p) # name(q)

(***************************************************************************)
(* C30: json_hex returns a string of uniform width for a given CPU, for    *)
(* every 64-bit value: exactly 10 characters ("0x" and 8 hex digits) when  *)
(* the CPU is X86, Ppc, Sparc or Arm, and exactly 18 characters ("0x" and  *)
(* 16 hex digits) when it is X86_64, Ppc64, Arm64 or unknown.  Read off    *)
(* the crash address print_json writes.                                    *)
(***************************************************************************)
C30_UniformWidth ==
    (JsonWritten /\ state.crash_address # None) =>
        Len(ret.out.json.crash_info.address.v) =
            IF state.cpu \in {"X86", "Ppc", "Sparc", "Arm"} THEN 10 ELSE 18

====
